---- MODULE Spec2Model ----
(***************************************************************************)
(* ep3gen: the directive-driven parser of source.html (main.go, utils.go)  *)
(* and the section partitioner of the TOC generator (gen.go genNAVFile).   *)
(*                                                                         *)
(* A Go string is a TLA+ string.  TLC cannot take a string apart, so the   *)
(* table Chars gives the byte sequence of every string of the model, and   *)
(* HasPrefix, Index and Slice compute on those sequences as the strings    *)
(* package does on the bytes.                                              *)
(*                                                                         *)
(* The input file is revealed as the cursor reads it: `lines` holds the    *)
(* lines read so far, and each action draws the lines it is about to read  *)
(* (its script) from the bounded input sets below.  A script that runs out *)
(* while the code wants another line is the end of the file.               *)
(***************************************************************************)
EXTENDS Integers, Sequences, FiniteSets, TLC

VARIABLES
    lines,            \* main.go:58   the lines of source.html read so far
    lineIndex,        \* main.go:60   0-based index of the current line
    currLine,         \* main.go:59
    attributes,       \* main.go:61   metadata name -> content
    sections,         \* main.go:64
    guides,           \* main.go:65
    currSectionNo,    \* main.go:67
    given,            \* main.go:369-378, 578-581  directives whose ...Given flag is set
    firstBodymatter,  \* main.go:525
    firstBackmatter,  \* main.go:581
    sectionLines,     \* gen.go:138   the lines last handed to a section template
    nav,              \* gen.go:323-339  the data last handed to the nav template
    pc,               \* the step of main() that runs next
    err,              \* why the run ended, "none" while it has not failed
    errArg            \* the directive or line the error message names

vars == <<lines, lineIndex, currLine, attributes, sections, guides, currSectionNo,
          given, firstBodymatter, firstBackmatter, sectionLines, nav, pc, err, errArg>>

(***************************************************************************)
(* Bounds of the exploration.                                              *)
(***************************************************************************)
MaxSections == 6     \* Sections of a document, the three fixed ones included
MaxFront == 2        \* front-matter Sections of a document
MaxBack == 2         \* back-matter Sections of a document
MaxDeviations == 1   \* lines of a document that are not of its plain form

(***************************************************************************)
(* The bytes of every string of the model.                                 *)
(***************************************************************************)
Chars ==
     "" :> <<>> @@
     "\"" :> <<"\"">> @@
     "&#160;" :> <<"&", "#", "1", "6", "0", ";">> @@
     "," :> <<",">> @@
     "-->" :> <<"-", "-", ">">> @@
     "." :> <<".">> @@
     "2021-01-01T00:00:00Z" :> <<"2", "0", "2", "1", "-", "0", "1", "-", "0", "1", "T", "0", "0", ":", "0", "0", ":", "0", "0", "Z">> @@
     "2022" :> <<"2", "0", "2", "2">> @@
     "2022-04-13T00:00:00Z" :> <<"2", "0", "2", "2", "-", "0", "4", "-", "1", "3", "T", "0", "0", ":", "0", "0", ":", "0", "0", "Z">> @@
     "<!--" :> <<"<", "!", "-", "-">> @@
     "<!--acknowledgments-->" :> <<"<", "!", "-", "-", "a", "c", "k", "n", "o", "w", "l", "e", "d", "g", "m", "e", "n", "t", "s", "-", "-", ">">> @@
     "<!--afterword-->" :> <<"<", "!", "-", "-", "a", "f", "t", "e", "r", "w", "o", "r", "d", "-", "-", ">">> @@
     "<!--appendix-->" :> <<"<", "!", "-", "-", "a", "p", "p", "e", "n", "d", "i", "x", "-", "-", ">">> @@
     "<!--bibliography-->" :> <<"<", "!", "-", "-", "b", "i", "b", "l", "i", "o", "g", "r", "a", "p", "h", "y", "-", "-", ">">> @@
     "<!--chapter-->" :> <<"<", "!", "-", "-", "c", "h", "a", "p", "t", "e", "r", "-", "-", ">">> @@
     "<!--copyright-->" :> <<"<", "!", "-", "-", "c", "o", "p", "y", "r", "i", "g", "h", "t", "-", "-", ">">> @@
     "<!--dedication-->" :> <<"<", "!", "-", "-", "d", "e", "d", "i", "c", "a", "t", "i", "o", "n", "-", "-", ">">> @@
     "<!--end-->" :> <<"<", "!", "-", "-", "e", "n", "d", "-", "-", ">">> @@
     "<!--epigraph-->" :> <<"<", "!", "-", "-", "e", "p", "i", "g", "r", "a", "p", "h", "-", "-", ">">> @@
     "<!--epilogue-->" :> <<"<", "!", "-", "-", "e", "p", "i", "l", "o", "g", "u", "e", "-", "-", ">">> @@
     "<!--foreword-->" :> <<"<", "!", "-", "-", "f", "o", "r", "e", "w", "o", "r", "d", "-", "-", ">">> @@
     "<!--introduction-->" :> <<"<", "!", "-", "-", "i", "n", "t", "r", "o", "d", "u", "c", "t", "i", "o", "n", "-", "-", ">">> @@
     "<!--part-->" :> <<"<", "!", "-", "-", "p", "a", "r", "t", "-", "-", ">">> @@
     "<!--preamble-->" :> <<"<", "!", "-", "-", "p", "r", "e", "a", "m", "b", "l", "e", "-", "-", ">">> @@
     "<!--preface-->" :> <<"<", "!", "-", "-", "p", "r", "e", "f", "a", "c", "e", "-", "-", ">">> @@
     "<!--prologue-->" :> <<"<", "!", "-", "-", "p", "r", "o", "l", "o", "g", "u", "e", "-", "-", ">">> @@
     "<!--titlepage-->" :> <<"<", "!", "-", "-", "t", "i", "t", "l", "e", "p", "a", "g", "e", "-", "-", ">">> @@
     "<!--unknown-->" :> <<"<", "!", "-", "-", "u", "n", "k", "n", "o", "w", "n", "-", "-", ">">> @@
     "</h1>" :> <<"<", "/", "h", "1", ">">> @@
     "</head>" :> <<"<", "/", "h", "e", "a", "d", ">">> @@
     "<body>" :> <<"<", "b", "o", "d", "y", ">">> @@
     "<h1" :> <<"<", "h", "1">> @@
     "<h1>&#160;</h1>" :> <<"<", "h", "1", ">", "&", "#", "1", "6", "0", ";", "<", "/", "h", "1", ">">> @@
     "<h1>T</h1>" :> <<"<", "h", "1", ">", "T", "<", "/", "h", "1", ">">> @@
     "<h2" :> <<"<", "h", "2">> @@
     "<h3" :> <<"<", "h", "3">> @@
     "<head>" :> <<"<", "h", "e", "a", "d", ">">> @@
     "<html>" :> <<"<", "h", "t", "m", "l", ">">> @@
     "<link name=\"title\" content=\"U\"/>" :> <<"<", "l", "i", "n", "k", " ", "n", "a", "m", "e", "=", "\"", "t", "i", "t", "l", "e", "\"", " ", "c", "o", "n", "t", "e", "n", "t", "=", "\"", "U", "\"", "/", ">">> @@
     "<meta" :> <<"<", "m", "e", "t", "a">> @@
     "<meta charset=\"utf-8\"/>" :> <<"<", "m", "e", "t", "a", " ", "c", "h", "a", "r", "s", "e", "t", "=", "\"", "u", "t", "f", "-", "8", "\"", "/", ">">> @@
     "<meta content=\"U\"/>" :> <<"<", "m", "e", "t", "a", " ", "c", "o", "n", "t", "e", "n", "t", "=", "\"", "U", "\"", "/", ">">> @@
     "<meta name=" :> <<"<", "m", "e", "t", "a", " ", "n", "a", "m", "e", "=">> @@
     "<meta name=\"author\" content=\"A\"/>" :> <<"<", "m", "e", "t", "a", " ", "n", "a", "m", "e", "=", "\"", "a", "u", "t", "h", "o", "r", "\"", " ", "c", "o", "n", "t", "e", "n", "t", "=", "\"", "A", "\"", "/", ">">> @@
     "<meta name=\"author-sort\" content=\"A\"/>" :> <<"<", "m", "e", "t", "a", " ", "n", "a", "m", "e", "=", "\"", "a", "u", "t", "h", "o", "r", "-", "s", "o", "r", "t", "\"", " ", "c", "o", "n", "t", "e", "n", "t", "=", "\"", "A", "\"", "/", ">">> @@
     "<meta name=\"cover-image\" content=\"c.v.png\"/>" :> <<"<", "m", "e", "t", "a", " ", "n", "a", "m", "e", "=", "\"", "c", "o", "v", "e", "r", "-", "i", "m", "a", "g", "e", "\"", " ", "c", "o", "n", "t", "e", "n", "t", "=", "\"", "c", ".", "v", ".", "p", "n", "g", "\"", "/", ">">> @@
     "<meta name=\"cover-image\" content=\"cover\"/>" :> <<"<", "m", "e", "t", "a", " ", "n", "a", "m", "e", "=", "\"", "c", "o", "v", "e", "r", "-", "i", "m", "a", "g", "e", "\"", " ", "c", "o", "n", "t", "e", "n", "t", "=", "\"", "c", "o", "v", "e", "r", "\"", "/", ">">> @@
     "<meta name=\"cover-image\" content=\"cover.gif\"/>" :> <<"<", "m", "e", "t", "a", " ", "n", "a", "m", "e", "=", "\"", "c", "o", "v", "e", "r", "-", "i", "m", "a", "g", "e", "\"", " ", "c", "o", "n", "t", "e", "n", "t", "=", "\"", "c", "o", "v", "e", "r", ".", "g", "i", "f", "\"", "/", ">">> @@
     "<meta name=\"cover-image\" content=\"cover.png\"/>" :> <<"<", "m", "e", "t", "a", " ", "n", "a", "m", "e", "=", "\"", "c", "o", "v", "e", "r", "-", "i", "m", "a", "g", "e", "\"", " ", "c", "o", "n", "t", "e", "n", "t", "=", "\"", "c", "o", "v", "e", "r", ".", "p", "n", "g", "\"", "/", ">">> @@
     "<meta name=\"created\" content=\"2021-01-01T00:00:00Z\"/>" :> <<"<", "m", "e", "t", "a", " ", "n", "a", "m", "e", "=", "\"", "c", "r", "e", "a", "t", "e", "d", "\"", " ", "c", "o", "n", "t", "e", "n", "t", "=", "\"", "2", "0", "2", "1", "-", "0", "1", "-", "0", "1", "T", "0", "0", ":", "0", "0", ":", "0", "0", "Z", "\"", "/", ">">> @@
     "<meta name=\"images\" content=\"a.png,b\"/>" :> <<"<", "m", "e", "t", "a", " ", "n", "a", "m", "e", "=", "\"", "i", "m", "a", "g", "e", "s", "\"", " ", "c", "o", "n", "t", "e", "n", "t", "=", "\"", "a", ".", "p", "n", "g", ",", "b", "\"", "/", ">">> @@
     "<meta name=\"images\" content=\"a.png,b.gif\"/>" :> <<"<", "m", "e", "t", "a", " ", "n", "a", "m", "e", "=", "\"", "i", "m", "a", "g", "e", "s", "\"", " ", "c", "o", "n", "t", "e", "n", "t", "=", "\"", "a", ".", "p", "n", "g", ",", "b", ".", "g", "i", "f", "\"", "/", ">">> @@
     "<meta name=\"images\" content=\"a.png,b.jpeg\"/>" :> <<"<", "m", "e", "t", "a", " ", "n", "a", "m", "e", "=", "\"", "i", "m", "a", "g", "e", "s", "\"", " ", "c", "o", "n", "t", "e", "n", "t", "=", "\"", "a", ".", "p", "n", "g", ",", "b", ".", "j", "p", "e", "g", "\"", "/", ">">> @@
     "<meta name=\"language\" content=\"en\"/>" :> <<"<", "m", "e", "t", "a", " ", "n", "a", "m", "e", "=", "\"", "l", "a", "n", "g", "u", "a", "g", "e", "\"", " ", "c", "o", "n", "t", "e", "n", "t", "=", "\"", "e", "n", "\"", "/", ">">> @@
     "<meta name=\"published\" content=\"2022\"/>" :> <<"<", "m", "e", "t", "a", " ", "n", "a", "m", "e", "=", "\"", "p", "u", "b", "l", "i", "s", "h", "e", "d", "\"", " ", "c", "o", "n", "t", "e", "n", "t", "=", "\"", "2", "0", "2", "2", "\"", "/", ">">> @@
     "<meta name=\"publisher\" content=\"P\"/>" :> <<"<", "m", "e", "t", "a", " ", "n", "a", "m", "e", "=", "\"", "p", "u", "b", "l", "i", "s", "h", "e", "r", "\"", " ", "c", "o", "n", "t", "e", "n", "t", "=", "\"", "P", "\"", "/", ">">> @@
     "<meta name=\"title\" content=\"T\"/>" :> <<"<", "m", "e", "t", "a", " ", "n", "a", "m", "e", "=", "\"", "t", "i", "t", "l", "e", "\"", " ", "c", "o", "n", "t", "e", "n", "t", "=", "\"", "T", "\"", "/", ">">> @@
     "<meta name=\"title\" content=\"U\"/>" :> <<"<", "m", "e", "t", "a", " ", "n", "a", "m", "e", "=", "\"", "t", "i", "t", "l", "e", "\"", " ", "c", "o", "n", "t", "e", "n", "t", "=", "\"", "U", "\"", "/", ">">> @@
     "<meta name=\"title\" content=\"U/>" :> <<"<", "m", "e", "t", "a", " ", "n", "a", "m", "e", "=", "\"", "t", "i", "t", "l", "e", "\"", " ", "c", "o", "n", "t", "e", "n", "t", "=", "\"", "U", "/", ">">> @@
     "<meta name=\"title\"/>" :> <<"<", "m", "e", "t", "a", " ", "n", "a", "m", "e", "=", "\"", "t", "i", "t", "l", "e", "\"", "/", ">">> @@
     "<meta name=\"title-sort\" content=\"T\"/>" :> <<"<", "m", "e", "t", "a", " ", "n", "a", "m", "e", "=", "\"", "t", "i", "t", "l", "e", "-", "s", "o", "r", "t", "\"", " ", "c", "o", "n", "t", "e", "n", "t", "=", "\"", "T", "\"", "/", ">">> @@
     "<meta name=\"title/>" :> <<"<", "m", "e", "t", "a", " ", "n", "a", "m", "e", "=", "\"", "t", "i", "t", "l", "e", "/", ">">> @@
     "<meta name=\"titlepage\" content=\"custom\"/>" :> <<"<", "m", "e", "t", "a", " ", "n", "a", "m", "e", "=", "\"", "t", "i", "t", "l", "e", "p", "a", "g", "e", "\"", " ", "c", "o", "n", "t", "e", "n", "t", "=", "\"", "c", "u", "s", "t", "o", "m", "\"", "/", ">">> @@
     "<meta name=\"titlepage\" content=\"default\"/>" :> <<"<", "m", "e", "t", "a", " ", "n", "a", "m", "e", "=", "\"", "t", "i", "t", "l", "e", "p", "a", "g", "e", "\"", " ", "c", "o", "n", "t", "e", "n", "t", "=", "\"", "d", "e", "f", "a", "u", "l", "t", "\"", "/", ">">> @@
     "<meta name=\"titlepage\" content=\"tp\"/>" :> <<"<", "m", "e", "t", "a", " ", "n", "a", "m", "e", "=", "\"", "t", "i", "t", "l", "e", "p", "a", "g", "e", "\"", " ", "c", "o", "n", "t", "e", "n", "t", "=", "\"", "t", "p", "\"", "/", ">">> @@
     "<meta name=\"titlepage\" content=\"tp.gif\"/>" :> <<"<", "m", "e", "t", "a", " ", "n", "a", "m", "e", "=", "\"", "t", "i", "t", "l", "e", "p", "a", "g", "e", "\"", " ", "c", "o", "n", "t", "e", "n", "t", "=", "\"", "t", "p", ".", "g", "i", "f", "\"", "/", ">">> @@
     "<meta name=\"titlepage\" content=\"tp.png\"/>" :> <<"<", "m", "e", "t", "a", " ", "n", "a", "m", "e", "=", "\"", "t", "i", "t", "l", "e", "p", "a", "g", "e", "\"", " ", "c", "o", "n", "t", "e", "n", "t", "=", "\"", "t", "p", ".", "p", "n", "g", "\"", "/", ">">> @@
     "<meta name=\"version\" content=\"epub2\"/>" :> <<"<", "m", "e", "t", "a", " ", "n", "a", "m", "e", "=", "\"", "v", "e", "r", "s", "i", "o", "n", "\"", " ", "c", "o", "n", "t", "e", "n", "t", "=", "\"", "e", "p", "u", "b", "2", "\"", "/", ">">> @@
     "<meta name=\"version\" content=\"epub3\"/>" :> <<"<", "m", "e", "t", "a", " ", "n", "a", "m", "e", "=", "\"", "v", "e", "r", "s", "i", "o", "n", "\"", " ", "c", "o", "n", "t", "e", "n", "t", "=", "\"", "e", "p", "u", "b", "3", "\"", "/", ">">> @@
     "<p>x</p>" :> <<"<", "p", ">", "x", "<", "/", "p", ">">> @@
     "<title>T</title>" :> <<"<", "t", "i", "t", "l", "e", ">", "T", "<", "/", "t", "i", "t", "l", "e", ">">> @@
     ">" :> <<">">> @@
     "A" :> <<"A">> @@
     "Acknowledgments" :> <<"A", "c", "k", "n", "o", "w", "l", "e", "d", "g", "m", "e", "n", "t", "s">> @@
     "Afterword" :> <<"A", "f", "t", "e", "r", "w", "o", "r", "d">> @@
     "Appendix" :> <<"A", "p", "p", "e", "n", "d", "i", "x">> @@
     "Bibliography" :> <<"B", "i", "b", "l", "i", "o", "g", "r", "a", "p", "h", "y">> @@
     "Chapter" :> <<"C", "h", "a", "p", "t", "e", "r">> @@
     "Copyright" :> <<"C", "o", "p", "y", "r", "i", "g", "h", "t">> @@
     "Cover Page" :> <<"C", "o", "v", "e", "r", " ", "P", "a", "g", "e">> @@
     "Dedication" :> <<"D", "e", "d", "i", "c", "a", "t", "i", "o", "n">> @@
     "Epigraph" :> <<"E", "p", "i", "g", "r", "a", "p", "h">> @@
     "Epilogue" :> <<"E", "p", "i", "l", "o", "g", "u", "e">> @@
     "Foreword" :> <<"F", "o", "r", "e", "w", "o", "r", "d">> @@
     "Introduction" :> <<"I", "n", "t", "r", "o", "d", "u", "c", "t", "i", "o", "n">> @@
     "P" :> <<"P">> @@
     "Part" :> <<"P", "a", "r", "t">> @@
     "Preamble" :> <<"P", "r", "e", "a", "m", "b", "l", "e">> @@
     "Preface" :> <<"P", "r", "e", "f", "a", "c", "e">> @@
     "Prologue" :> <<"P", "r", "o", "l", "o", "g", "u", "e">> @@
     "T" :> <<"T">> @@
     "Title Page" :> <<"T", "i", "t", "l", "e", " ", "P", "a", "g", "e">> @@
     "U" :> <<"U">> @@
     "a.png" :> <<"a", ".", "p", "n", "g">> @@
     "a.png,b" :> <<"a", ".", "p", "n", "g", ",", "b">> @@
     "a.png,b.gif" :> <<"a", ".", "p", "n", "g", ",", "b", ".", "g", "i", "f">> @@
     "a.png,b.jpeg" :> <<"a", ".", "p", "n", "g", ",", "b", ".", "j", "p", "e", "g">> @@
     "author" :> <<"a", "u", "t", "h", "o", "r">> @@
     "author-sort" :> <<"a", "u", "t", "h", "o", "r", "-", "s", "o", "r", "t">> @@
     "b" :> <<"b">> @@
     "b.gif" :> <<"b", ".", "g", "i", "f">> @@
     "b.jpeg" :> <<"b", ".", "j", "p", "e", "g">> @@
     "c.v.png" :> <<"c", ".", "v", ".", "p", "n", "g">> @@
     "content=" :> <<"c", "o", "n", "t", "e", "n", "t", "=">> @@
     "copyright" :> <<"c", "o", "p", "y", "r", "i", "g", "h", "t">> @@
     "copyright-page" :> <<"c", "o", "p", "y", "r", "i", "g", "h", "t", "-", "p", "a", "g", "e">> @@
     "cover" :> <<"c", "o", "v", "e", "r">> @@
     "cover-image" :> <<"c", "o", "v", "e", "r", "-", "i", "m", "a", "g", "e">> @@
     "cover.gif" :> <<"c", "o", "v", "e", "r", ".", "g", "i", "f">> @@
     "cover.png" :> <<"c", "o", "v", "e", "r", ".", "p", "n", "g">> @@
     "created" :> <<"c", "r", "e", "a", "t", "e", "d">> @@
     "custom" :> <<"c", "u", "s", "t", "o", "m">> @@
     "default" :> <<"d", "e", "f", "a", "u", "l", "t">> @@
     "en" :> <<"e", "n">> @@
     "epub2" :> <<"e", "p", "u", "b", "2">> @@
     "epub3" :> <<"e", "p", "u", "b", "3">> @@
     "images" :> <<"i", "m", "a", "g", "e", "s">> @@
     "jpeg" :> <<"j", "p", "e", "g">> @@
     "language" :> <<"l", "a", "n", "g", "u", "a", "g", "e">> @@
     "modified" :> <<"m", "o", "d", "i", "f", "i", "e", "d">> @@
     "name=" :> <<"n", "a", "m", "e", "=">> @@
     "now" :> <<"n", "o", "w">> @@
     "png" :> <<"p", "n", "g">> @@
     "published" :> <<"p", "u", "b", "l", "i", "s", "h", "e", "d">> @@
     "publisher" :> <<"p", "u", "b", "l", "i", "s", "h", "e", "r">> @@
     "section" :> <<"s", "e", "c", "t", "i", "o", "n">> @@
     "section000" :> <<"s", "e", "c", "t", "i", "o", "n", "0", "0", "0">> @@
     "section001" :> <<"s", "e", "c", "t", "i", "o", "n", "0", "0", "1">> @@
     "section002" :> <<"s", "e", "c", "t", "i", "o", "n", "0", "0", "2">> @@
     "section003" :> <<"s", "e", "c", "t", "i", "o", "n", "0", "0", "3">> @@
     "section004" :> <<"s", "e", "c", "t", "i", "o", "n", "0", "0", "4">> @@
     "section005" :> <<"s", "e", "c", "t", "i", "o", "n", "0", "0", "5">> @@
     "section006" :> <<"s", "e", "c", "t", "i", "o", "n", "0", "0", "6">> @@
     "section007" :> <<"s", "e", "c", "t", "i", "o", "n", "0", "0", "7">> @@
     "section008" :> <<"s", "e", "c", "t", "i", "o", "n", "0", "0", "8">> @@
     "section009" :> <<"s", "e", "c", "t", "i", "o", "n", "0", "0", "9">> @@
     "section010" :> <<"s", "e", "c", "t", "i", "o", "n", "0", "1", "0">> @@
     "section011" :> <<"s", "e", "c", "t", "i", "o", "n", "0", "1", "1">> @@
     "section012" :> <<"s", "e", "c", "t", "i", "o", "n", "0", "1", "2">> @@
     "section013" :> <<"s", "e", "c", "t", "i", "o", "n", "0", "1", "3">> @@
     "section014" :> <<"s", "e", "c", "t", "i", "o", "n", "0", "1", "4">> @@
     "section015" :> <<"s", "e", "c", "t", "i", "o", "n", "0", "1", "5">> @@
     "section016" :> <<"s", "e", "c", "t", "i", "o", "n", "0", "1", "6">> @@
     "section017" :> <<"s", "e", "c", "t", "i", "o", "n", "0", "1", "7">> @@
     "section018" :> <<"s", "e", "c", "t", "i", "o", "n", "0", "1", "8">> @@
     "section019" :> <<"s", "e", "c", "t", "i", "o", "n", "0", "1", "9">> @@
     "section020" :> <<"s", "e", "c", "t", "i", "o", "n", "0", "2", "0">> @@
     "section021" :> <<"s", "e", "c", "t", "i", "o", "n", "0", "2", "1">> @@
     "section022" :> <<"s", "e", "c", "t", "i", "o", "n", "0", "2", "2">> @@
     "section023" :> <<"s", "e", "c", "t", "i", "o", "n", "0", "2", "3">> @@
     "section024" :> <<"s", "e", "c", "t", "i", "o", "n", "0", "2", "4">> @@
     "title" :> <<"t", "i", "t", "l", "e">> @@
     "title-sort" :> <<"t", "i", "t", "l", "e", "-", "s", "o", "r", "t">> @@
     "titlepage" :> <<"t", "i", "t", "l", "e", "p", "a", "g", "e">> @@
     "tp" :> <<"t", "p">> @@
     "tp.gif" :> <<"t", "p", ".", "g", "i", "f">> @@
     "tp.png" :> <<"t", "p", ".", "p", "n", "g">> @@
     "version" :> <<"v", "e", "r", "s", "i", "o", "n">>

(***************************************************************************)
(* Strings: the operations of Go's strings package and of slicing that the *)
(* code uses, on the byte sequences of Chars.  Indexes are 0-based as in   *)
(* Go.                                                                     *)
(***************************************************************************)
Str(cs) == CHOOSE s \in DOMAIN Chars : Chars[s] = cs

StrLen(s) == Len(Chars[s])

\* on byte sequences
BytesHavePrefix(cs, prefix) ==
    Len(prefix) <= Len(cs) /\ SubSeq(cs, 1, Len(prefix)) = prefix

BytesIndex(cs, substr) ==
    LET hits == {i \in 0..Len(cs) :
                    /\ i + Len(substr) <= Len(cs)
                    /\ SubSeq(cs, i + 1, i + Len(substr)) = substr}
    IN  IF hits = {} THEN -1 ELSE CHOOSE i \in hits : \A j \in hits : i <= j

\* cs[lo:hi] is in range
InRange(cs, lo, hi) == 0 <= lo /\ lo <= hi /\ hi <= Len(cs)

\* strings.Split(s, sep) for a one-byte sep
RECURSIVE BytesSplit(_, _)
BytesSplit(cs, sep) ==
    LET i == BytesIndex(cs, sep)
    IN  IF i = -1 THEN <<cs>>
        ELSE <<SubSeq(cs, 1, i)>> \o BytesSplit(SubSeq(cs, i + 2, Len(cs)), sep)

\* on strings
HasPrefix(s, prefix) == BytesHavePrefix(Chars[s], Chars[prefix])

Index(s, substr) == BytesIndex(Chars[s], Chars[substr])

SliceInRange(s, lo, hi) == InRange(Chars[s], lo, hi)

Slice(s, lo, hi) == Str(SubSeq(Chars[s], lo + 1, hi))

Digits == <<"0", "1", "2", "3", "4", "5", "6", "7", "8", "9">>

RECURSIVE Decimal(_)
Decimal(n) ==
    IF n < 10 THEN <<Digits[n + 1]>> ELSE Decimal(n \div 10) \o <<Digits[(n % 10) + 1]>>

RECURSIVE ZeroPad(_, _)
ZeroPad(cs, width) == IF Len(cs) >= width THEN cs ELSE ZeroPad(<<"0">> \o cs, width)

\* fmt.Sprintf("section%03d", n)
SectionId(n) == Str(Chars["section"] \o ZeroPad(Decimal(n), 3))

(***************************************************************************)
(* The directives and their static properties.                             *)
(***************************************************************************)
FrontOnce == {"bibliography", "acknowledgments", "dedication", "epigraph",
              "foreword", "introduction", "preface", "prologue"}
FrontKinds == FrontOnce \cup {"preamble"}
BodyKinds == {"part", "chapter"}
BackOnce == {"afterword", "epilogue"}
BackKinds == BackOnce \cup {"appendix"}
SectionKinds == FrontKinds \cup BodyKinds \cup BackKinds

Directive ==
    [titlepage |-> "<!--titlepage-->", copyright |-> "<!--copyright-->",
     bibliography |-> "<!--bibliography-->", acknowledgments |-> "<!--acknowledgments-->",
     dedication |-> "<!--dedication-->", epigraph |-> "<!--epigraph-->",
     foreword |-> "<!--foreword-->", introduction |-> "<!--introduction-->",
     preface |-> "<!--preface-->", prologue |-> "<!--prologue-->",
     preamble |-> "<!--preamble-->", part |-> "<!--part-->", chapter |-> "<!--chapter-->",
     afterword |-> "<!--afterword-->", epilogue |-> "<!--epilogue-->",
     appendix |-> "<!--appendix-->", end |-> "<!--end-->"]

IsDirective(line, kinds) == \E k \in kinds : line = Directive[k]

KindOf(line) == CHOOSE k \in DOMAIN Directive : line = Directive[k]

\* the heading a directive's section gets when its heading line is the sentinel
DefaultLabel ==
    [bibliography |-> "Bibliography", acknowledgments |-> "Acknowledgments",
     dedication |-> "Dedication", epigraph |-> "Epigraph", foreword |-> "Foreword",
     introduction |-> "Introduction", preface |-> "Preface", prologue |-> "Prologue",
     preamble |-> "Preamble", afterword |-> "Afterword", epilogue |-> "Epilogue",
     appendix |-> "Appendix"]

(***************************************************************************)
(* The cursor.  `doc` is the file as far as an action knows it: the lines  *)
(* read so far followed by the action's script.  A reader is the record    *)
(* [idx, cur, err] of lineIndex, currLine and the failure met so far.      *)
(***************************************************************************)
NoErr == "none"

Reader == [idx |-> lineIndex, cur |-> currLine, err |-> NoErr]

\* nextLine() taking the end of the file for the end directive
NextLineEnding(doc, r) ==
    IF r.err # NoErr THEN r
    ELSE LET i == r.idx + 1
         IN  IF i >= Len(doc) THEN [r EXCEPT !.idx = i, !.cur = "<!--end-->"]
             ELSE [r EXCEPT !.idx = i, !.cur = doc[i + 1]]

\* nextLine() without the increment of utils.go:34
NextLineStaying(doc, r) ==
    IF r.err # NoErr THEN r
    ELSE IF r.idx >= Len(doc) THEN [r EXCEPT !.err = "UnexpectedEndOfInput"]
    ELSE [r EXCEPT !.cur = doc[r.idx + 1]]

\* currLine = nextLine()
NextLine(doc, r) ==
    IF r.err # NoErr THEN r
    ELSE LET i == r.idx + 1
         IN  IF i = Len(doc) THEN [r EXCEPT !.idx = i, !.err = "UnexpectedEndOfInput"]
             ELSE IF i > Len(doc) THEN [r EXCEPT !.idx = i, !.err = "RuntimePanic"]
             ELSE [r EXCEPT !.idx = i, !.cur = doc[i + 1]]

\* the script was read to its last line: no line of it is left unread
Consumed(doc, r) == r.idx >= Len(doc) - 1

\* extractHeading(): [err, heading]
ExtractHeading(line) ==
    IF HasPrefix(line, "<h1") \/ HasPrefix(line, "<h2") \/ HasPrefix(line, "<h3")
    THEN LET pos == Index(line, ">") + 1
             end == StrLen(line) - StrLen("</h1>")
         IN  IF ~SliceInRange(line, pos, end)
             THEN [err |-> "RuntimePanic", heading |-> ""]
             ELSE LET heading == Slice(line, pos, end)
                  IN  [err |-> NoErr,
                       heading |-> IF heading = "&#160;" THEN "" ELSE heading]
    ELSE [err |-> "HeadingFormatError", heading |-> ""]

\* The loop of genFrontmatterSection, genBodyMatterSection and
\* genBackmatterSection: [r, buf] when it ends.
RECURSIVE ReadSectionLines(_, _, _)
ReadSectionLines(doc, r, buf) ==
    LET buf1 == Append(buf, r.cur)
        r1 == NextLine(doc, r)
    IN  IF r1.err # NoErr \/ HasPrefix(r1.cur, "<!--")
        THEN [r |-> r1, buf |-> buf1]
        ELSE ReadSectionLines(doc, r1, buf1)

\* the loop buffering the line it stops at as well
GenSectionThrough(doc, r) ==
    LET g == ReadSectionLines(doc, r, <<>>)
    IN  [g EXCEPT !.buf = Append(g.buf, g.r.cur)]

GenSection(doc, r) == ReadSectionLines(doc, r, <<>>)

SectionData(id, epubType, heading) == [ID |-> id, EpubType |-> epubType, Heading |-> heading]

\* newSectionData() without the increment of utils.go:77
NewSectionDataStale(n, epubType, heading) == SectionData(SectionId(n), epubType, heading)

\* what newSectionData() appends when the counter is n
NewSectionData(n, epubType, heading) == SectionData(SectionId(n + 1), epubType, heading)

(***************************************************************************)
(* The input: the lines an action may be about to read.                    *)
(***************************************************************************)
MetaLines ==
    <<"<meta name=\"version\" content=\"epub3\"/>",
      "<meta name=\"title\" content=\"T\"/>",
      "<meta name=\"title-sort\" content=\"T\"/>",
      "<meta name=\"author\" content=\"A\"/>",
      "<meta name=\"author-sort\" content=\"A\"/>",
      "<meta name=\"published\" content=\"2022\"/>",
      "<meta name=\"publisher\" content=\"P\"/>",
      "<meta name=\"language\" content=\"en\"/>",
      "<meta name=\"cover-image\" content=\"cover.png\"/>">>

TitlepageLines ==
    {"<meta name=\"titlepage\" content=\"custom\"/>",
     "<meta name=\"titlepage\" content=\"default\"/>"}

\* the declaration of the creation time of an e-book that is updated
\* (README.md:125)
CreatedLine == "<meta name=\"created\" content=\"2021-01-01T00:00:00Z\"/>"

\* the optional declarations offered after the mandatory ones
OptionalLines == TitlepageLines \cup {CreatedLine}

SkippedLine == "<title>T</title>"

TextLine == "<p>x</p>"

MarkerLines == {Directive[k] : k \in DOMAIN Directive} \cup {"<!--unknown-->"}

HeadingLines == {"<h1>T</h1>", "<h1>&#160;</h1>"}

\* The plain form of a document: the mandatory declarations, no line
\* skipped, every directive followed by the heading line <h1>T</h1> and by
\* no text line, and no end of the file before the end directive.
PlainLines ==
    {"<html>", "<head>", "</head>", "<body>", "<h1>T</h1>"}
    \cup {MetaLines[i] : i \in 1..Len(MetaLines)} \cup MarkerLines

Deviates(doc, i) ==
    \/ doc[i] \notin PlainLines
    \/ i > 1 /\ doc[i] \in MarkerLines /\ doc[i - 1] \in MarkerLines

\* the lines of doc after its first n that are not of the plain form
DeviationsFrom(doc, n) == Cardinality({i \in (n + 1)..Len(doc) : Deviates(doc, i)})

DeviationsIn(doc) == DeviationsFrom(doc, 0)

\* the Sections a document with n deviations may have: two fewer for each
SectionCap(n) == MaxSections - 2 * n

\* The document an action makes known is one of the bounded family: devs
\* of its lines deviate, and one more line is missing when the reader met
\* the end of the file after lines the action made known.  The file may end
\* with the lines that are already known in every document of the family.
Offered(devs, r, secs) ==
    LET n == devs + (IF r.err = "UnexpectedEndOfInput" /\ r.idx > Len(lines)
                     THEN 1 ELSE 0)
    IN  n <= MaxDeviations /\ Len(secs) <= SectionCap(n)

TextScripts == UNION {[1..n -> {TextLine}] : n \in 0..MaxDeviations}

\* the lines from a section's first line to the marker that ends it, or to
\* the end of the file
SectionScripts(firstLines, texts) ==
    {<<>>} \cup
    {<<f>> \o b \o m : f \in firstLines, b \in texts,
                       m \in {<<>>} \cup {<<l>> : l \in MarkerLines}}

(***************************************************************************)
(* The metadata of the <head> section.                                     *)
(***************************************************************************)
HasAttr(attrs, name) == name \in DOMAIN attrs

SetAttr(attrs, name, value) ==
    [n \in DOMAIN attrs \cup {name} |-> IF n = name THEN value ELSE attrs[n]]

\* extractMetaData() refusing a line without name=
ExtractMetaDataStrict(line, attrs) ==
    LET cs == Chars[line]
        quote == Chars["\""]
        i1 == BytesIndex(cs, Chars["name="])
        from1 == i1 + StrLen("name=") + 1
        name0 == SubSeq(cs, from1 + 1, Len(cs))
        i2 == BytesIndex(name0, quote)
        i3 == BytesIndex(cs, Chars["content="])
        from3 == i3 + StrLen("content=") + 1
        content0 == SubSeq(cs, from3 + 1, Len(cs))
        i4 == BytesIndex(content0, quote)
    IN  IF i1 = -1 \/ i2 = -1 \/ i3 = -1 \/ i4 = -1
        THEN [err |-> "MalformedMetadata", attributes |-> attrs]
        ELSE [err |-> NoErr,
              attributes |-> SetAttr(attrs, Str(SubSeq(name0, 1, i2)),
                                     Str(SubSeq(content0, 1, i4)))]

\* extractMetaData(): [err, attributes]
ExtractMetaData(line, attrs) ==
    LET cs == Chars[line]
        quote == Chars["\""]
        i1 == BytesIndex(cs, Chars["name="])
        from1 == i1 + StrLen("name=") + 1
        name0 == SubSeq(cs, from1 + 1, Len(cs))
        i2 == BytesIndex(name0, quote)
        i3 == BytesIndex(cs, Chars["content="])
        from3 == i3 + StrLen("content=") + 1
        content0 == SubSeq(cs, from3 + 1, Len(cs))
        i4 == BytesIndex(content0, quote)
    IN  IF i1 = -1 THEN [err |-> NoErr, attributes |-> attrs]
        ELSE IF from1 > Len(cs) THEN [err |-> "RuntimePanic", attributes |-> attrs]
        ELSE IF i2 = -1 THEN [err |-> "MalformedMetadata", attributes |-> attrs]
        ELSE IF i3 = -1 THEN [err |-> "MalformedMetadata", attributes |-> attrs]
        ELSE IF from3 > Len(cs) THEN [err |-> "RuntimePanic", attributes |-> attrs]
        ELSE IF i4 = -1 THEN [err |-> "MalformedMetadata", attributes |-> attrs]
        ELSE [err |-> NoErr,
              attributes |-> SetAttr(attrs, Str(SubSeq(name0, 1, i2)),
                                     Str(SubSeq(content0, 1, i4)))]

RequiredAttributes ==
    <<"version", "title", "title-sort", "author", "author-sort", "published",
      "publisher", "language">>

\* the extension check of an image file name: the error it ends with
ImageError(file) ==
    LET parts == BytesSplit(Chars[file], Chars["."])
    IN  IF Len(parts) < 2 THEN "RuntimePanic"
        ELSE IF parts[2] # Chars["png"] /\ parts[2] # Chars["jpeg"]
             THEN "UnsupportedImageExtension"
             ELSE NoErr

ImagesError(value) ==
    LET files == BytesSplit(Chars[value], Chars[","])
        bad == {i \in 1..Len(files) : ImageError(Str(files[i])) # NoErr}
    IN  IF bad = {} THEN NoErr
        ELSE ImageError(Str(files[CHOOSE i \in bad : \A j \in bad : i <= j]))

\* the checks of main.go:176-249 without those of main.go:187-214
AttributesErrorLax(attrs) ==
    IF ~HasAttr(attrs, "version") \/ attrs["version"] # "epub3" THEN "MissingAttribute"
    ELSE IF ~HasAttr(attrs, "cover-image") THEN "MissingAttribute"
    ELSE IF ImageError(attrs["cover-image"]) # NoErr
         THEN ImageError(attrs["cover-image"])
    ELSE IF HasAttr(attrs, "images") THEN ImagesError(attrs["images"])
    ELSE NoErr

\* the checks of main.go:176-249, in their order: the error of the first that fails
AttributesError(attrs) ==
    LET missing == {i \in 1..Len(RequiredAttributes) :
                       ~HasAttr(attrs, RequiredAttributes[i])}
    IN  IF HasAttr(attrs, "version") /\ attrs["version"] # "epub3" THEN "MissingAttribute"
        ELSE IF missing # {} THEN "MissingAttribute"
        ELSE IF ~HasAttr(attrs, "cover-image") THEN "MissingAttribute"
        ELSE IF ImageError(attrs["cover-image"]) # NoErr
             THEN ImageError(attrs["cover-image"])
        ELSE IF HasAttr(attrs, "images") THEN ImagesError(attrs["images"])
        ELSE NoErr

TimeStamp == "2022-04-13T00:00:00Z"

\* the two timestamps set whether or not created was supplied
StampAttributesFresh(attrs) ==
    SetAttr(SetAttr(attrs, "created", TimeStamp), "modified", TimeStamp)

\* main.go:254-258
StampAttributes(attrs) ==
    SetAttr(IF HasAttr(attrs, "created") THEN attrs ELSE SetAttr(attrs, "created", TimeStamp),
            "modified", TimeStamp)

(***************************************************************************)
(* The state after the file was read (main.go:131).                        *)
(***************************************************************************)
Init ==
    /\ lines \in {<<>>, <<"<html>">>}
    /\ lineIndex = 0
    /\ currLine = ""
    /\ attributes = [n \in {} |-> ""]
    /\ sections = <<>>
    /\ guides = <<>>
    /\ currSectionNo = 0
    /\ given = {}
    /\ firstBodymatter = TRUE
    /\ firstBackmatter = TRUE
    /\ sectionLines = <<>>
    /\ nav = <<>>
    /\ pc = "SkipToHead"
    /\ err = NoErr
    /\ errArg = ""

\* a step taken whether or not the run has failed
RunningOn(step) == pc = step

\* the run is at step: no os.Exit or panic has ended it
Running(step) == pc = step /\ err = NoErr

\* the variables of the cursor after an action whose reader ended as r
Cursor(doc, r) ==
    /\ lines' = doc
    /\ lineIndex' = r.idx
    /\ currLine' = r.cur

\* the run ends with error e
Fail(e, arg) == err' = e /\ errArg' = arg /\ pc' = pc

Goto(step) == pc' = step /\ err' = NoErr /\ errArg' = ""

HeadScripts == {<<>>, <<"<head>">>, <<SkippedLine>>}

\* one pass of the loop of main.go:153-158
SkipToHead ==
    /\ Running("SkipToHead")
    /\ \E script \in IF lines = <<>> THEN {<<>>} ELSE HeadScripts :
           LET doc == lines \o script
               r == NextLine(doc, Reader)
           IN  /\ Consumed(doc, r)
               /\ Offered(DeviationsIn(doc), r, sections)
               /\ Cursor(doc, r)
               /\ IF r.err # NoErr THEN Fail(r.err, "")
                  ELSE IF r.cur = "<head>" THEN Goto("Metadata")
                  ELSE Goto("SkipToHead")
    /\ UNCHANGED <<attributes, sections, guides, currSectionNo, given, firstBodymatter,
                   firstBackmatter, sectionLines, nav>>

\* the lines offered in the <head> section: the mandatory declarations in
\* their order, then one optional declaration, and </head>
MetaScripts ==
    LET n == Cardinality(DOMAIN attributes)
    IN  {<<>>, <<"</head>">>}
        \cup (IF n < Len(MetaLines) THEN {<<MetaLines[n + 1]>>} ELSE {})
        \cup (IF n = Len(MetaLines) THEN {<<l>> : l \in OptionalLines} ELSE {})

\* one pass of the loop of main.go:162-170 on a file that goes on with script
MetadataPass(script) ==
    /\ LET doc == lines \o script
           r == NextLine(doc, Reader)
           meta == ExtractMetaData(r.cur, attributes)
       IN  /\ Consumed(doc, r)
           /\ Offered(DeviationsIn(doc), r, sections)
           /\ Cursor(doc, r)
           /\ IF r.err # NoErr THEN Fail(r.err, "") /\ UNCHANGED attributes
              ELSE IF r.cur = "</head>"
                   THEN Goto("CheckAttributes") /\ UNCHANGED attributes
              ELSE IF ~HasPrefix(r.cur, "<meta")
                   THEN Goto("Metadata") /\ UNCHANGED attributes
              ELSE IF meta.err # NoErr
                   THEN Fail(meta.err, r.cur) /\ UNCHANGED attributes
              ELSE Goto("Metadata") /\ attributes' = meta.attributes
    /\ UNCHANGED <<sections, guides, currSectionNo, given, firstBodymatter,
                   firstBackmatter, sectionLines, nav>>

\* one pass of the loop of main.go:162-170
Metadata ==
    /\ Running("Metadata")
    /\ \E script \in MetaScripts : MetadataPass(script)

\* main.go:176-258
CheckAttributes ==
    /\ Running("CheckAttributes")
    /\ IF AttributesError(attributes) # NoErr
       THEN Fail(AttributesError(attributes), "") /\ UNCHANGED attributes
       ELSE Goto("SkipToBody") /\ attributes' = StampAttributes(attributes)
    /\ UNCHANGED <<lines, lineIndex, currLine, sections, guides, currSectionNo, given,
                   firstBodymatter, firstBackmatter, sectionLines, nav>>

BodyScripts ==
    {<<>>, <<SkippedLine>>, <<"<body>">>}
    \cup {<<"<body>", l>> : l \in MarkerLines \cup {TextLine, "<h1>T</h1>"}}

\* one pass of the loop of main.go:263-268 and, once <body> is found, the
\* read of main.go:269
SkipToBody ==
    /\ Running("SkipToBody")
    /\ \E script \in BodyScripts :
           LET doc == lines \o script
               r1 == NextLine(doc, Reader)
               r == IF r1.err = NoErr /\ r1.cur = "<body>" THEN NextLine(doc, r1) ELSE r1
           IN  /\ Consumed(doc, r)
               /\ Offered(DeviationsIn(doc), r, sections)
               /\ Cursor(doc, r)
               /\ IF r.err # NoErr THEN Fail(r.err, "")
                  ELSE IF r1.cur = "<body>" THEN Goto("Cover")
                  ELSE Goto("SkipToBody")
    /\ UNCHANGED <<attributes, sections, guides, currSectionNo, given, firstBodymatter,
                   firstBackmatter, sectionLines, nav>>

(***************************************************************************)
(* STEP 1 to STEP 3: the cover, the title page and the copyright section.  *)
(***************************************************************************)
\* the first line of a section that is built without a heading check
FirstLines == HeadingLines \cup {TextLine, "<!--chapter-->", "<!--bibliography-->", "<!--end-->"}

\* main.go:275
CoverSection == SectionData("cover", "cover", "Cover Page")

\* main.go:302
TitlePageSection == SectionData("titlepage", "titlepage", "Title Page")

\* the Section of main.go:340 with the kind of a preamble
CopyrightAsPreamble == SectionData("copyright", "preamble", "Copyright")

\* main.go:340
CopyrightSection == SectionData("copyright", "copyright-page", "Copyright")

\* main.go:275-278
GenCover ==
    /\ Running("Cover")
    /\ sections' = Append(sections, CoverSection)
    /\ guides' = Append(guides, CoverSection)
    /\ Goto("TitlePage")
    /\ UNCHANGED <<lines, lineIndex, currLine, attributes, currSectionNo, given,
                   firstBodymatter, firstBackmatter, sectionLines, nav>>

\* the switch of main.go:306 with no default for a missing attribute
TitlePageKindDeclared(attrs) == IF HasAttr(attrs, "titlepage") THEN attrs["titlepage"] ELSE "custom"

\* main.go:297-300
TitlePageKind(attrs) == IF HasAttr(attrs, "titlepage") THEN attrs["titlepage"] ELSE "default"

\* the switch of main.go:306-331: [r, err, buf]
TitlePageRun(doc, titlePage) ==
    IF titlePage = "default" THEN [r |-> Reader, err |-> NoErr, buf |-> sectionLines]
    ELSE IF titlePage = "custom"
    THEN LET r1 == NextLine(doc, Reader)
             r2 == NextLine(doc, r1)
             g == GenSection(doc, r2)
         IN  IF r1.err # NoErr THEN [r |-> r1, err |-> r1.err, buf |-> sectionLines]
             ELSE IF r1.cur # "<!--titlepage-->"
                  THEN [r |-> r1, err |-> "TitlePageDirectiveExpected", buf |-> sectionLines]
             ELSE IF r2.err # NoErr THEN [r |-> r2, err |-> r2.err, buf |-> sectionLines]
             ELSE IF g.r.err # NoErr THEN [r |-> g.r, err |-> g.r.err, buf |-> sectionLines]
             ELSE [r |-> g.r, err |-> NoErr, buf |-> g.buf]
    ELSE [r |-> Reader, err |-> ImageError(titlePage), buf |-> sectionLines]

TitlePageScripts ==
    {<<>>} \cup {<<l>> : l \in MarkerLines \cup {TextLine, "<h1>T</h1>"}}
    \cup {<<"<!--titlepage-->">> \o s : s \in SectionScripts(FirstLines, TextScripts)}

\* main.go:297-331
GenTitlePage ==
    /\ Running("TitlePage")
    /\ LET known == DeviationsIn(lines)
       IN  \E script \in TitlePageScripts :
               LET doc == lines \o script
                   devs == known + DeviationsFrom(doc, Len(lines))
                   run == TitlePageRun(doc, TitlePageKind(attributes))
               IN  /\ devs <= MaxDeviations
                   /\ Consumed(doc, run.r)
                   /\ Offered(devs, run.r, sections)
                   /\ Cursor(doc, run.r)
                   /\ sectionLines' = run.buf
                   /\ IF run.err # NoErr THEN Fail(run.err, "") ELSE Goto("Copyright")
    /\ sections' = Append(sections, TitlePageSection)
    /\ guides' = Append(guides, TitlePageSection)
    /\ UNCHANGED <<attributes, currSectionNo, given, firstBodymatter, firstBackmatter, nav>>

\* a directive in the place of a section's first line, followed by the
\* heading line and the marker that would have ended its own section
DirectiveFirstScripts ==
    {<<f, "<h1>T</h1>", m>> : f \in FirstLines \cap MarkerLines, m \in MarkerLines}

DirectiveScripts == SectionScripts(FirstLines, TextScripts) \cup DirectiveFirstScripts

\* the scripts of the plain form
PlainScripts == SectionScripts({"<h1>T</h1>"}, {<<>>})

\* the scripts that can be offered to a document of which known lines
\* deviate: those of the plain form when one more deviation is not
ScriptsFor(known) ==
    IF known < MaxDeviations /\ Len(sections) <= SectionCap(known + 1)
    THEN DirectiveScripts
    ELSE PlainScripts

\* the test of main.go:338 passed by every directive line
IsAnyDirective(line) == HasPrefix(line, "<!--")

\* main.go:338
IsCopyrightDirective(line) == line = "<!--copyright-->"

\* main.go:338-346
GenCopyright ==
    /\ Running("Copyright")
    /\ IF ~IsCopyrightDirective(currLine)
       THEN /\ Fail("CopyrightDirectiveExpected", "")
            /\ UNCHANGED <<lines, lineIndex, currLine, sections, sectionLines>>
       ELSE LET known == DeviationsIn(lines)
            IN  \E script \in ScriptsFor(known) :
                    LET doc == lines \o script
                        devs == known + DeviationsFrom(doc, Len(lines))
                        r1 == NextLine(doc, Reader)
                        g == GenSection(doc, r1)
                    IN  /\ devs <= MaxDeviations
                        /\ Consumed(doc, g.r)
                        /\ Offered(devs, g.r, sections)
                        /\ Cursor(doc, g.r)
                        /\ sections' = IF r1.err = NoErr
                                       THEN Append(sections, CopyrightSection)
                                       ELSE sections
                        /\ sectionLines' = IF g.r.err = NoErr THEN g.buf ELSE sectionLines
                        /\ IF g.r.err # NoErr THEN Fail(g.r.err, "")
                           ELSE Goto("FrontMatter")
    /\ UNCHANGED <<attributes, guides, currSectionNo, given, firstBodymatter,
                   firstBackmatter, nav>>

(***************************************************************************)
(* STEP 4 to STEP 6: the sections built from a directive.                  *)
(***************************************************************************)
\* the heading extractHeading() returned, passed on as it is
SectionHeadingExtracted(kind, heading) == heading

\* the heading main() passes to newSectionData for a directive
SectionHeading(kind, heading) ==
    IF kind \in BodyKinds THEN heading
    ELSE IF kind \in {"prologue", "preamble"} THEN DefaultLabel[kind]
    ELSE IF heading = "" THEN DefaultLabel[kind]
    ELSE heading

\* a case of the switch once its directive is accepted: nextLine(),
\* extractHeading(), newSectionData() and the section's generator
\* (main.go:390-396): [r, err, arg, secs, buf]
BuildSection(doc, kind) ==
    LET r1 == NextLine(doc, Reader)
        h == ExtractHeading(r1.cur)
        section == NewSectionData(currSectionNo, kind, SectionHeading(kind, h.heading))
        g == GenSection(doc, r1)
    IN  IF r1.err # NoErr
        THEN [r |-> r1, err |-> r1.err, arg |-> "", secs |-> <<>>, buf |-> sectionLines]
        ELSE IF h.err # NoErr
        THEN [r |-> r1, err |-> h.err, arg |-> r1.cur, secs |-> <<>>, buf |-> sectionLines]
        ELSE IF g.r.err # NoErr
        THEN [r |-> g.r, err |-> g.r.err, arg |-> "", secs |-> <<section>>,
              buf |-> sectionLines]
        ELSE [r |-> g.r, err |-> NoErr, arg |-> "", secs |-> <<section>>, buf |-> g.buf]

CountOf(secs, kinds) == Cardinality({i \in 1..Len(secs) : secs[i].EpubType \in kinds})

\* the bounds of the exploration on the Sections of a document
WithinBounds(kind) ==
    /\ kind \in FrontKinds => CountOf(sections, FrontKinds) < MaxFront
    /\ kind \in BackKinds => CountOf(sections, BackKinds) < MaxBack

\* the test of main.go:385 with no flag ever found set
NeverGiven(kind) == FALSE

\* the ...Given flag of the directive is set (main.go:385)
AlreadyGiven(kind) == kind \in FrontOnce \cup BackOnce /\ kind \in given

\* the exit of main.go:386-387 with a message that names no directive
DuplicateUnnamed(kind) ==
    /\ Fail("DuplicateDirective", "")
    /\ UNCHANGED <<lines, lineIndex, currLine, sections, currSectionNo, given, sectionLines>>

\* the exit of main.go:386-387 taken after the read of main.go:390
DuplicateAfterRead(kind) ==
    /\ Fail("DuplicateDirective", kind)
    /\ lineIndex' = lineIndex + 1
    /\ UNCHANGED <<lines, currLine, sections, currSectionNo, given, sectionLines>>

\* main.go:386-387
Duplicate(kind) ==
    /\ Fail("DuplicateDirective", kind)
    /\ UNCHANGED <<lines, lineIndex, currLine, sections, currSectionNo, given, sectionLines>>

\* the Guides with every Section of the group added
GuidesWithEvery(first, secs) == guides \o secs

\* the Guides started again at the first Section of the group
GuidesWithReset(first, secs) == IF first THEN secs ELSE guides

\* the Guides after a Section of a group whose first-flag is first
\* (main.go:536-539)
GuidesWith(first, secs) == IF first THEN guides \o secs ELSE guides

\* The effect of BuildSection on the cursor, the Sections and the flags,
\* for a document of which devs lines deviate.
Built(doc, devs, kind, b) ==
    /\ Consumed(doc, b.r)
    /\ Offered(devs, b.r, sections \o b.secs)
    /\ b.secs # <<>> => WithinBounds(kind)
    /\ Cursor(doc, b.r)
    /\ given' = IF kind \in FrontOnce \cup BackOnce THEN given \cup {kind} ELSE given
    /\ sections' = sections \o b.secs
    /\ currSectionNo' = currSectionNo + Len(b.secs)
    /\ sectionLines' = b.buf

\* one pass of loop1 on a front-matter directive (main.go:383-511)
FrontMatter ==
    /\ Running("FrontMatter")
    /\ IsDirective(currLine, FrontKinds)
    /\ LET kind == KindOf(currLine)
           known == DeviationsIn(lines)
       IN  IF AlreadyGiven(kind) THEN Duplicate(kind)
           ELSE \E script \in ScriptsFor(known) :
                    LET doc == lines \o script
                        devs == known + DeviationsFrom(doc, Len(lines))
                        b == BuildSection(doc, kind)
                    IN  /\ devs <= MaxDeviations
                        /\ Built(doc, devs, kind, b)
                        /\ IF b.err # NoErr THEN Fail(b.err, b.arg)
                           ELSE Goto("FrontMatter")
    /\ UNCHANGED <<attributes, guides, firstBodymatter, firstBackmatter, nav>>

\* the default case of loop1 refusing a line that is no body-matter directive
FrontMatterExitStrict ==
    /\ Running("FrontMatter")
    /\ ~IsDirective(currLine, FrontKinds)
    /\ IF IsDirective(currLine, BodyKinds) THEN Goto("BodyMatter")
       ELSE Fail("UnknownDirective", currLine)
    /\ UNCHANGED <<lines, lineIndex, currLine, attributes, sections, guides, currSectionNo,
                   given, firstBodymatter, firstBackmatter, sectionLines, nav>>

\* the default case of loop1 reading one more line before it breaks
FrontMatterExitConsuming ==
    /\ Running("FrontMatter")
    /\ ~IsDirective(currLine, FrontKinds)
    /\ Goto("BodyMatter")
    /\ lineIndex' = lineIndex + 1
    /\ UNCHANGED <<lines, currLine, attributes, sections, guides, currSectionNo,
                   given, firstBodymatter, firstBackmatter, sectionLines, nav>>

\* main.go:513-514
FrontMatterExit ==
    /\ Running("FrontMatter")
    /\ ~IsDirective(currLine, FrontKinds)
    /\ Goto("BodyMatter")
    /\ UNCHANGED <<lines, lineIndex, currLine, attributes, sections, guides, currSectionNo,
                   given, firstBodymatter, firstBackmatter, sectionLines, nav>>

\* one pass of loop2 on a part or chapter directive (main.go:530-550)
BodyMatter ==
    /\ Running("BodyMatter")
    /\ IsDirective(currLine, BodyKinds)
    /\ LET kind == KindOf(currLine)
           known == DeviationsIn(lines)
       IN  \E script \in ScriptsFor(known) :
               LET doc == lines \o script
                   devs == known + DeviationsFrom(doc, Len(lines))
                   b == BuildSection(doc, kind)
               IN  /\ devs <= MaxDeviations
                   /\ Built(doc, devs, kind, b)
                   /\ IF b.err # NoErr
                      THEN Fail(b.err, b.arg) /\ UNCHANGED <<guides, firstBodymatter>>
                      ELSE /\ Goto("BodyMatter")
                           /\ firstBodymatter' = FALSE
                           /\ guides' = GuidesWith(firstBodymatter, b.secs)
    /\ UNCHANGED <<attributes, firstBackmatter, nav>>

\* the default case of loop2 handing a front-matter directive back to loop1
BodyMatterExitBackward ==
    /\ Running("BodyMatter")
    /\ ~IsDirective(currLine, BodyKinds)
    /\ IF firstBodymatter THEN Fail("NoChapterSpecified", "")
       ELSE IF IsDirective(currLine, FrontKinds) THEN Goto("FrontMatter")
       ELSE Goto("BackMatter")
    /\ UNCHANGED <<lines, lineIndex, currLine, attributes, sections, guides, currSectionNo,
                   given, firstBodymatter, firstBackmatter, sectionLines, nav>>

\* the default case of loop2 without the check of main.go:559-562
BodyMatterExitUnchecked ==
    /\ Running("BodyMatter")
    /\ ~IsDirective(currLine, BodyKinds)
    /\ Goto("BackMatter")
    /\ UNCHANGED <<lines, lineIndex, currLine, attributes, sections, guides, currSectionNo,
                   given, firstBodymatter, firstBackmatter, sectionLines, nav>>

\* main.go:552-562
BodyMatterExit ==
    /\ Running("BodyMatter")
    /\ ~IsDirective(currLine, BodyKinds)
    /\ IF firstBodymatter THEN Fail("NoChapterSpecified", "") ELSE Goto("BackMatter")
    /\ UNCHANGED <<lines, lineIndex, currLine, attributes, sections, guides, currSectionNo,
                   given, firstBodymatter, firstBackmatter, sectionLines, nav>>

\* one pass of loop3 on a back-matter directive (main.go:587-637)
BackMatter ==
    /\ Running("BackMatter")
    /\ IsDirective(currLine, BackKinds)
    /\ LET kind == KindOf(currLine)
           known == DeviationsIn(lines)
       IN  IF AlreadyGiven(kind)
           THEN Duplicate(kind) /\ UNCHANGED <<guides, firstBackmatter>>
           ELSE \E script \in ScriptsFor(known) :
                    LET doc == lines \o script
                        devs == known + DeviationsFrom(doc, Len(lines))
                        b == BuildSection(doc, kind)
                    IN  /\ devs <= MaxDeviations
                        /\ Built(doc, devs, kind, b)
                        /\ IF b.err # NoErr
                           THEN Fail(b.err, b.arg) /\ UNCHANGED <<guides, firstBackmatter>>
                           ELSE /\ Goto("BackMatter")
                                /\ firstBackmatter' = FALSE
                                /\ guides' = GuidesWith(firstBackmatter, b.secs)
    /\ UNCHANGED <<attributes, firstBodymatter, nav>>

\* the end case of loop3 reading one more line
BackMatterEndAdvancing ==
    /\ Running("BackMatter")
    /\ currLine = "<!--end-->"
    /\ Goto("End")
    /\ lineIndex' = lineIndex + 1
    /\ UNCHANGED <<lines, currLine, attributes, sections, guides, currSectionNo,
                   given, firstBodymatter, firstBackmatter, sectionLines, nav>>

\* main.go:639-640
BackMatterEnd ==
    /\ Running("BackMatter")
    /\ currLine = "<!--end-->"
    /\ Goto("End")
    /\ UNCHANGED <<lines, lineIndex, currLine, attributes, sections, guides, currSectionNo,
                   given, firstBodymatter, firstBackmatter, sectionLines, nav>>

\* the default case of loop3 leaving the loop as the end case does
BackMatterUnknownSilent ==
    /\ Running("BackMatter")
    /\ ~IsDirective(currLine, BackKinds \cup {"end"})
    /\ Goto("End")
    /\ UNCHANGED <<lines, lineIndex, currLine, attributes, sections, guides, currSectionNo,
                   given, firstBodymatter, firstBackmatter, sectionLines, nav>>

\* main.go:642-644
BackMatterUnknown ==
    /\ Running("BackMatter")
    /\ ~IsDirective(currLine, BackKinds \cup {"end"})
    /\ Fail("UnknownDirective", currLine)
    /\ UNCHANGED <<lines, lineIndex, currLine, attributes, sections, guides, currSectionNo,
                   given, firstBodymatter, firstBackmatter, sectionLines, nav>>

(***************************************************************************)
(* STEP 7: the control files.  genNAVFile partitions the Sections into     *)
(* front sections, parts with their chapters or a flat chapter list, and   *)
(* back sections.  Indexes are 0-based as in Go: sections[i] is secs[i+1]  *)
(* and sections[lo:hi] is SubSeq(secs, lo + 1, hi).                        *)
(***************************************************************************)
ZeroSection == SectionData("", "", "")

GoSlice(secs, lo, hi) == SubSeq(secs, lo + 1, hi)

\* the loop of gen.go:266-270 stopping at the first chapter only
RangeSectionsToChapter(secs) ==
    LET hits == {i \in 0..(Len(secs) - 1) : secs[i + 1].EpubType = "chapter"}
        index == IF secs = <<>> THEN 0
                 ELSE IF hits = {} THEN Len(secs) - 1
                 ELSE CHOOSE i \in hits : \A j \in hits : i <= j
    IN  [index |-> index, section |-> IF secs = <<>> THEN ZeroSection ELSE secs[index + 1]]

\* the loop of gen.go:266-270: [index, section] when it ends
RangeSections(secs) ==
    LET hits == {i \in 0..(Len(secs) - 1) : secs[i + 1].EpubType \in {"part", "chapter"}}
        index == IF secs = <<>> THEN 0
                 ELSE IF hits = {} THEN Len(secs) - 1
                 ELSE CHOOSE i \in hits : \A j \in hits : i <= j
    IN  [index |-> index, section |-> IF secs = <<>> THEN ZeroSection ELSE secs[index + 1]]

\* the front sections taken to be the three fixed Sections
FrontSectionsFixed(secs) == GoSlice(secs, 0, 3)

\* frontSections := sections[:index] (gen.go:271)
FrontSections(secs) == GoSlice(secs, 0, RangeSections(secs).index)

\* the loop of gen.go:283-309: [err, index, partSections] when it ends
RECURSIVE PartLoop(_, _, _, _, _, _)
PartLoop(secs, index, firstTime, currPart, startIndex, partSections) ==
    IF index >= Len(secs)
    THEN [err |-> "RuntimePanic", index |-> index, partSections |-> partSections]
    ELSE LET section == secs[index + 1]
             partSection == [Part |-> currPart, Chapters |-> GoSlice(secs, startIndex, index)]
         IN  IF section.EpubType = "part"
             THEN IF firstTime
                  THEN PartLoop(secs, index + 1, FALSE, section, index + 1, <<>>)
                  ELSE PartLoop(secs, index + 1, FALSE, section, index + 1,
                                Append(partSections, partSection))
             ELSE IF section.EpubType # "chapter"
             THEN [err |-> NoErr, index |-> index,
                   partSections |-> Append(partSections, partSection)]
             ELSE PartLoop(secs, index + 1, firstTime, currPart, startIndex, partSections)

\* the loop of gen.go:313-315: the index when it ends.  Its body is a break,
\* so the index is never incremented.
ChapterLoop(secs, index) ==
    IF secs[index + 1].EpubType # "chapter" THEN index ELSE index

\* gen.go:262-320: [err, frontSections, hasParts, partSections,
\* chapterSections, backSections]
Partition(secs) ==
    LET found == RangeSections(secs)
        hasParts == found.section.EpubType = "part"
        loop == PartLoop(secs, found.index, TRUE, ZeroSection, 0, <<>>)
        index == IF hasParts THEN loop.index ELSE ChapterLoop(secs, found.index)
        failed == IF hasParts THEN loop.err # NoErr ELSE found.index >= Len(secs)
    IN  IF failed
        THEN [err |-> "RuntimePanic", frontSections |-> <<>>, hasParts |-> hasParts,
              partSections |-> <<>>, chapterSections |-> <<>>, backSections |-> <<>>]
        ELSE [err |-> NoErr,
              frontSections |-> FrontSections(secs),
              hasParts |-> hasParts,
              partSections |-> IF hasParts THEN loop.partSections ELSE <<>>,
              chapterSections |-> IF hasParts THEN <<>> ELSE GoSlice(secs, found.index, index),
              backSections |-> GoSlice(secs, index, Len(secs))]

\* genNAVFile() handing out its back sections by removing them from the
\* Sections
GenNAVFileConsuming ==
    /\ Running("End")
    /\ LET data == Partition(sections)
       IN  IF data.err # NoErr
           THEN Fail(data.err, "") /\ UNCHANGED <<nav, sections>>
           ELSE /\ Goto("NCX")
                /\ nav' = <<data>>
                /\ sections' = SubSeq(sections, 1, Len(sections) - Len(data.backSections))
    /\ UNCHANGED <<lines, lineIndex, currLine, attributes, guides, currSectionNo,
                   given, firstBodymatter, firstBackmatter, sectionLines>>

\* gen.go:254-347
GenNAVFile ==
    /\ Running("End")
    /\ LET data == Partition(sections)
       IN  IF data.err # NoErr
           THEN Fail(data.err, "") /\ UNCHANGED nav
           ELSE Goto("NCX") /\ nav' = <<data>>
    /\ UNCHANGED <<lines, lineIndex, currLine, attributes, sections, guides, currSectionNo,
                   given, firstBodymatter, firstBackmatter, sectionLines>>

\* gen.go:350-375
GenNCXFile ==
    /\ Running("NCX")
    /\ Goto("OPF")
    /\ UNCHANGED <<lines, lineIndex, currLine, attributes, sections, guides, currSectionNo,
                   given, firstBodymatter, firstBackmatter, sectionLines, nav>>

\* gen.go:378-447
GenOPFFile ==
    /\ Running("OPF")
    /\ Goto("Done")
    /\ UNCHANGED <<lines, lineIndex, currLine, attributes, sections, guides, currSectionNo,
                   given, firstBodymatter, firstBackmatter, sectionLines, nav>>

(***************************************************************************)
(* main()                                                                  *)
(***************************************************************************)
Next ==
    \/ SkipToHead
    \/ Metadata
    \/ CheckAttributes
    \/ SkipToBody
    \/ GenCover
    \/ GenTitlePage
    \/ GenCopyright
    \/ FrontMatter
    \/ FrontMatterExit
    \/ BodyMatter
    \/ BodyMatterExit
    \/ BackMatter
    \/ BackMatterEnd
    \/ BackMatterUnknown
    \/ GenNAVFile
    \/ GenNCXFile
    \/ GenOPFFile

Spec == Init /\ [][Next]_vars

\* the documents on which termination is checked: one Section fewer than
\* the bounds allow, in all and in the front and the back matter
Shorter ==
    /\ Len(sections) < MaxSections
    /\ CountOf(sections, FrontKinds) < MaxFront
    /\ CountOf(sections, BackKinds) < MaxBack

FairNext ==
    \/ SkipToHead /\ Shorter'
    \/ Metadata /\ Shorter'
    \/ CheckAttributes /\ Shorter'
    \/ SkipToBody /\ Shorter'
    \/ GenCover /\ Shorter'
    \/ GenTitlePage /\ Shorter'
    \/ GenCopyright /\ Shorter'
    \/ FrontMatter /\ Shorter'
    \/ FrontMatterExit /\ Shorter'
    \/ BodyMatter /\ Shorter'
    \/ BodyMatterExit /\ Shorter'
    \/ BackMatter /\ Shorter'
    \/ BackMatterEnd /\ Shorter'
    \/ BackMatterUnknown /\ Shorter'
    \/ GenNAVFile /\ Shorter'
    \/ GenNCXFile /\ Shorter'
    \/ GenOPFFile /\ Shorter'

\* main() is one sequential process: as long as it has neither returned nor
\* exited, its next statement is executed
FairSpec == Init /\ [][FairNext]_vars /\ WF_vars(FairNext)

(***************************************************************************)
(* The <head> section in full: a second family of files, in which any of   *)
(* the mandatory declarations may be missing and a declaration or line of  *)
(* another form may stand anywhere in the <head> section.  A declaration   *)
(* left out before a later one counts as a deviation, as a line of another *)
(* form does.  The run is followed to the end of the title-page step, the  *)
(* last that reads an attribute.                                           *)
(***************************************************************************)
\* the names the declarations of MetaLines declare
MetaKeys == RequiredAttributes \o <<"cover-image">>

\* the place in MetaLines of the last mandatory declaration read
LastDeclared ==
    LET read == {k \in 1..Len(MetaKeys) : HasAttr(attributes, MetaKeys[k])}
    IN  IF read = {} THEN 0 ELSE CHOOSE k \in read : \A j \in read : j <= k

\* declarations and lines that are not of the plain form
ExtraMetaLines ==
    {"<meta charset=\"utf-8\"/>",
     "<meta content=\"U\"/>",
     "<meta name=\"title\" content=\"U\"/>",
     "<meta name=\"title\"/>",
     "<meta name=\"title/>",
     "<meta name=\"title\" content=\"U/>",
     "<meta name=",
     "<link name=\"title\" content=\"U\"/>",
     "<meta name=\"version\" content=\"epub2\"/>",
     "<meta name=\"cover-image\" content=\"cover.gif\"/>",
     "<meta name=\"cover-image\" content=\"cover\"/>",
     "<meta name=\"cover-image\" content=\"c.v.png\"/>",
     "<meta name=\"images\" content=\"a.png,b.jpeg\"/>",
     "<meta name=\"images\" content=\"a.png,b.gif\"/>",
     "<meta name=\"images\" content=\"a.png,b\"/>",
     "<meta name=\"titlepage\" content=\"tp.png\"/>",
     "<meta name=\"titlepage\" content=\"tp.gif\"/>",
     "<meta name=\"titlepage\" content=\"tp\"/>",
     "<meta name=\"titlepage\" content=\"default\"/>",
     SkippedLine}

\* the mandatory declarations left out before the last one read
LeftOut ==
    Cardinality({k \in 1..LastDeclared : ~HasAttr(attributes, MetaKeys[k])})

\* where a line of ExtraMetaLines may stand: after the declaration of title,
\* which some of them repeat, and after the last mandatory declaration
ExtraPlaces == {2, Len(MetaLines)}

\* the lines offered in the <head> section: one of the next mandatory
\* declarations, with as many left out before it as the file can have more
\* deviations, a line of ExtraMetaLines when it can have one more, </head>,
\* or the end of the file
HeadMetaScripts ==
    LET last == LastDeclared
        room == MaxDeviations - DeviationsIn(lines) - LeftOut
        upto == IF last + 1 + room < Len(MetaLines) THEN last + 1 + room
                ELSE Len(MetaLines)
    IN  {<<>>, <<"</head>">>}
        \cup {<<MetaLines[k]>> : k \in (last + 1)..upto}
        \cup (IF room > 0 /\ last \in ExtraPlaces
              THEN {<<l>> : l \in ExtraMetaLines} ELSE {})

\* one pass of the loop of main.go:162-170
HeadMetadata ==
    /\ Running("Metadata")
    /\ \E script \in HeadMetaScripts : MetadataPass(script)

HeadNext ==
    \/ SkipToHead
    \/ HeadMetadata
    \/ CheckAttributes
    \/ SkipToBody
    \/ GenCover
    \/ GenTitlePage

HeadSpec == Init /\ [][HeadNext]_vars

(***************************************************************************)
(* Vocabulary of the properties.                                           *)
(***************************************************************************)
\* the parse has reached the End state: loop3 met the end directive
AtEnd == pc \in {"End", "NCX", "OPF", "Done"}

\* genNAVFile() has run, to its end or to a runtime panic
Partitioned == pc \in {"NCX", "OPF", "Done"} \/ (pc = "End" /\ err # NoErr)

Once == FrontOnce \cup BackOnce

CountKind(secs, kind) == CountOf(secs, {kind})

\* the places of the document read so far that hold the line
Occurrences(line) == {i \in 1..Len(lines) : lines[i] = line}

\* the loop whose switch has a case for the at-most-once directive
OwnStep(kind) == IF kind \in FrontOnce THEN "FrontMatter" ELSE "BackMatter"

\* the switch of the directive's own loop is about to dispatch it a second time
DispatchedAgain(kind) ==
    /\ err = NoErr
    /\ pc = OwnStep(kind)
    /\ currLine = Directive[kind]
    /\ CountKind(sections, kind) > 0

NoBodyDirective == Occurrences(Directive["part"]) \cup Occurrences(Directive["chapter"]) = {}

HasBody(secs) == CountOf(secs, BodyKinds) > 0

\* the place of the first body-matter Section
FirstBody(secs) ==
    CHOOSE i \in 1..Len(secs) :
        /\ secs[i].EpubType \in BodyKinds
        /\ \A j \in 1..(i - 1) : secs[j].EpubType \notin BodyKinds

\* the place where the maximal run of chapters that starts at place i ends,
\* i - 1 when the run is empty
ChapterRunEnd(secs, i) ==
    CHOOSE j \in (i - 1)..Len(secs) :
        /\ \A m \in i..j : secs[m].EpubType = "chapter"
        /\ j = Len(secs) \/ secs[j + 1].EpubType # "chapter"

\* one group per part from place i on, each with the chapters that follow it
RECURSIVE PartGroups(_, _)
PartGroups(secs, i) ==
    IF i > Len(secs) \/ secs[i].EpubType # "part" THEN <<>>
    ELSE LET end == ChapterRunEnd(secs, i + 1)
         IN  <<[Part |-> secs[i], Chapters |-> SubSeq(secs, i + 1, end)]>>
             \o PartGroups(secs, end + 1)

\* the number an identifier of the form sectionNNN carries, 0 for any other
SectionNumber(id) ==
    IF \E n \in 1..MaxSections : id = SectionId(n)
    THEN CHOOSE n \in 1..MaxSections : id = SectionId(n)
    ELSE 0

(***************************************************************************)
(* Properties.                                                             *)
(***************************************************************************)
\* C1: whenever a parse reaches End, the Sections are not empty and begin
\* with the cover, the title-page and the copyright Section in this order,
\* and no other Section has one of these three kinds.
C1_FixedSectionsFirst ==
    AtEnd =>
        /\ Len(sections) >= 3
        /\ sections[1].EpubType = "cover"
        /\ sections[2].EpubType = "titlepage"
        /\ sections[3].EpubType = "copyright-page"
        /\ \A i \in 4..Len(sections) :
               sections[i].EpubType \notin {"cover", "titlepage", "copyright-page"}

\* a parse at its end with Sections after the three fixed ones
C1_Witness == pc = "Done" /\ Len(sections) > 3

\* C2: in every reachable state the Sections hold at most one Section of
\* each at-most-once kind.
C2_AtMostOnce == \A k \in Once : CountKind(sections, k) <= 1

\* a second directive of a kind that has its Section was refused
C2_Witness == err = "DuplicateDirective" /\ CountKind(sections, errArg) = 1

\* C3 as stated: a document in which an at-most-once directive occurs twice
\* fails with DuplicateDirective for that kind wherever the second
\* occurrence is placed.
C3_TwiceFailsWithDuplicate ==
    \A k \in Once :
        Cardinality(Occurrences(Directive[k])) >= 2 /\ (err # NoErr \/ AtEnd)
            => err = "DuplicateDirective" /\ errArg = k

\* C3 amended: the run fails with DuplicateDirective for a kind exactly when
\* the loop of the directive's own group dispatches the directive while a
\* Section of that kind exists; and a parse that reaches End of a document
\* without the directive has no Section of that kind.
C3_DuplicateInOwnGroup ==
    /\ [][err = NoErr =>
             /\ \A k \in Once :
                    DispatchedAgain(k) => err' = "DuplicateDirective" /\ errArg' = k
             /\ err' = "DuplicateDirective" => \E k \in Once : DispatchedAgain(k)]_vars
    /\ [](\A k \in Once :
              AtEnd /\ Occurrences(Directive[k]) = {} => CountKind(sections, k) = 0)

\* a front-matter directive was refused by loop1
C3_Witness == err = "DuplicateDirective" /\ errArg \in FrontOnce /\ pc = "FrontMatter"

\* C4: the step that raises DuplicateDirective consumes no line: the cursor
\* stays on the directive line, which occurred before, no Section is
\* appended and the identifier counter does not advance.
C4_DuplicateConsumesNothing ==
    [][err = NoErr /\ err' = "DuplicateDirective" =>
          /\ lines' = lines
          /\ lineIndex' = lineIndex
          /\ currLine' = currLine
          /\ currLine = Directive[errArg']
          /\ lines[lineIndex + 1] = currLine
          /\ \E i \in 1..lineIndex : lines[i] = currLine
          /\ sections' = sections
          /\ currSectionNo' = currSectionNo]_vars

\* a back-matter directive was refused with the cursor on its line
C4_Witness ==
    /\ err = "DuplicateDirective"
    /\ errArg \in BackOnce
    /\ lines[lineIndex + 1] = Directive[errArg]

\* C5: no parse reaches End, or the back-matter loop, without a Section of
\* kind part or chapter; a document without part and chapter directive that
\* gets to the body-matter loop fails there with NoChapterSpecified.
C5_NoChapterSpecified ==
    /\ [](/\ AtEnd \/ pc = "BackMatter" => HasBody(sections)
          /\ NoBodyDirective => ~AtEnd /\ pc # "BackMatter"
          /\ NoBodyDirective /\ pc = "BodyMatter" /\ err # NoErr
                 => err = "NoChapterSpecified")
    /\ [][NoBodyDirective /\ pc = "BodyMatter" /\ err = NoErr
             => err' = "NoChapterSpecified"]_vars

\* a document with front matter and no part or chapter directive was refused
C5_Witness ==
    /\ err = "NoChapterSpecified"
    /\ NoBodyDirective
    /\ CountOf(sections, FrontKinds) > 0

\* C6 as stated: every parse that reaches End has a Section of kind chapter.
C6_ChapterInEveryBook == AtEnd => CountKind(sections, "chapter") > 0

\* C7 as stated: when the first body-matter Section is a chapter, the
\* Partitioner gives no part groups, the maximal run of chapters from that
\* chapter on as the flat chapter list, and the rest as the back sections.
C7_FlatChapterList ==
    nav # <<>> /\ HasBody(sections) /\ sections[FirstBody(sections)].EpubType = "chapter" =>
        LET first == FirstBody(sections)
            end == ChapterRunEnd(sections, first)
        IN  /\ ~nav[1].hasParts
            /\ nav[1].partSections = <<>>
            /\ nav[1].chapterSections = SubSeq(sections, first, end)
            /\ nav[1].backSections = SubSeq(sections, end + 1, Len(sections))

\* C8 as stated: when the first body-matter Section is a part, the
\* Partitioner gives one group per part, each with the maximal run of
\* chapters that follows the part, also when no back matter follows.
C8_PartGroups ==
    Partitioned /\ HasBody(sections) /\ sections[FirstBody(sections)].EpubType = "part" =>
        /\ err = NoErr
        /\ nav # <<>>
        /\ nav[1].hasParts
        /\ nav[1].partSections = PartGroups(sections, FirstBody(sections))

\* C9: a run of the Partitioner leaves the Sections, the Guides and the
\* identifier counter as they were, and what it hands to the template is a
\* function of the Sections alone: computed again from the same Sections,
\* the groupings are the ones recorded.
C9_PartitionerPure ==
    /\ [][pc = "End" /\ err = NoErr =>
             /\ sections' = sections
             /\ guides' = guides
             /\ currSectionNo' = currSectionNo
             /\ nav' # <<>> => nav' = <<Partition(sections)>>]_vars
    /\ [](nav # <<>> => nav[1] = Partition(sections))

\* the Partitioner has run on a document with parts
C9_Witness == pc = "NCX" /\ nav # <<>> /\ nav[1].hasParts

\* C10 as stated: the i-th Section of the document carries the identifier i.
C10_IdentifierIsPosition ==
    \A i \in 1..Len(sections) : SectionNumber(sections[i].ID) = i

\* C10 amended: the first three Sections carry the identifiers cover,
\* titlepage and copyright, the i-th Section after them carries section
\* followed by i in three digits, the identifiers are unique, and the
\* counter is the number of Sections after the first three.
C10_IdentifiersFollowCounter ==
    /\ \A i \in 1..Len(sections) :
           sections[i].ID = IF i = 1 THEN "cover"
                            ELSE IF i = 2 THEN "titlepage"
                            ELSE IF i = 3 THEN "copyright"
                            ELSE SectionId(i - 3)
    /\ \A i, j \in 1..Len(sections) : sections[i].ID = sections[j].ID => i = j
    /\ \A i \in 4..Len(sections) : SectionNumber(sections[i].ID) = i - 3
    /\ currSectionNo = IF Len(sections) <= 3 THEN 0 ELSE Len(sections) - 3

\* a parse at End with numbered Sections
C10_Witness == AtEnd /\ Len(sections) >= 5 /\ sections[5].ID = SectionId(2)

\* the three loops of main(), where a directive is expected
Loops == {"FrontMatter", "BodyMatter", "BackMatter"}

\* loop1 is about to dispatch a preface directive, and the step reads the
\* sentinel heading line after it and appends the Section
PrefaceFromSentinel ==
    /\ pc = "FrontMatter"
    /\ err = NoErr
    /\ currLine = Directive["preface"]
    /\ Len(lines') >= lineIndex + 2
    /\ lines'[lineIndex + 2] = "<h1>&#160;</h1>"
    /\ Len(sections') = Len(sections) + 1

\* C11 as stated: the Section appended for a preface directive whose heading
\* line is the sentinel stores the empty heading.
C11_SentinelStoredEmpty ==
    [][PrefaceFromSentinel => sections'[Len(sections')].Heading = ""]_vars

\* C11 amended: the Section appended for a preface directive whose heading
\* line is the sentinel is of kind preface and stores the default label
\* Preface as its heading; no Section of kind preface stores an empty heading.
C11_SentinelStoredAsLabel ==
    /\ [][PrefaceFromSentinel =>
             /\ sections'[Len(sections')].EpubType = "preface"
             /\ sections'[Len(sections')].Heading = "Preface"]_vars
    /\ [](\A j \in 1..Len(sections) :
              sections[j].EpubType = "preface" => sections[j].Heading # "")

\* a preface Section was built from a directive followed by the sentinel
C11_Witness ==
    /\ \E j \in 1..Len(sections) : sections[j].EpubType = "preface"
    /\ \E i \in 1..(Len(lines) - 1) :
           /\ lines[i] = Directive["preface"]
           /\ lines[i + 1] = "<h1>&#160;</h1>"
           /\ \A m \in 1..(i - 1) : lines[m] # Directive["preface"]
    /\ pc = "FrontMatter"

\* C12: the back-matter loop is entered only with a part or chapter Section;
\* a step of it on a line that is not the afterword, epilogue, appendix or
\* end directive fails with UnknownDirective for that line and changes
\* neither cursor nor Sections; the loop is left only for End, on the end
\* directive.
C12_BackMatterUnknown ==
    /\ [](pc = "BackMatter" => HasBody(sections))
    /\ [][pc = "BackMatter" /\ err = NoErr =>
             /\ ~IsDirective(currLine, BackKinds \cup {"end"}) =>
                    /\ pc' = "BackMatter"
                    /\ err' = "UnknownDirective"
                    /\ errArg' = currLine
                    /\ lineIndex' = lineIndex
                    /\ sections' = sections
             /\ pc' # "BackMatter" => pc' = "End" /\ currLine = "<!--end-->"]_vars

\* loop3 refused the unknown marker
C12_Witness ==
    /\ pc = "BackMatter"
    /\ err = "UnknownDirective"
    /\ errArg = "<!--unknown-->"
    /\ currLine = "<!--unknown-->"

\* a line of the shape of a marker that is none of the fixed marker strings
UnknownMarker(line) ==
    line \in MarkerLines /\ ~IsDirective(line, DOMAIN Directive)

\* C13 as stated: a step of one of the three loops on an unknown marker
\* consumes nothing, and when it fails it fails with UnknownDirective.
C13_UnknownEverywhere ==
    [][err = NoErr /\ pc \in Loops /\ UnknownMarker(currLine) =>
          /\ lineIndex' = lineIndex
          /\ sections' = sections
          /\ err' \in {NoErr, "UnknownDirective"}]_vars

\* C13 amended: an unknown marker is refused with UnknownDirective by the
\* back-matter loop only, which is entered after a part or chapter Section;
\* loop1 hands it to loop2, and loop2 fails with NoChapterSpecified when no
\* part or chapter Section exists and hands it to loop3 otherwise.  No step
\* on it consumes a line or appends a Section.
C13_UnknownAfterBody ==
    /\ [][err = NoErr /\ pc \in Loops /\ UnknownMarker(currLine) =>
             /\ lineIndex' = lineIndex
             /\ sections' = sections
             /\ pc = "FrontMatter" => pc' = "BodyMatter" /\ err' = NoErr
             /\ pc = "BodyMatter" /\ ~HasBody(sections) =>
                    pc' = "BodyMatter" /\ err' = "NoChapterSpecified"
             /\ pc = "BodyMatter" /\ HasBody(sections) =>
                    pc' = "BackMatter" /\ err' = NoErr
             /\ pc = "BackMatter" =>
                    pc' = "BackMatter" /\ err' = "UnknownDirective"]_vars
    /\ [](/\ pc = "FrontMatter" => ~HasBody(sections)
          /\ err = "UnknownDirective" => pc = "BackMatter" /\ HasBody(sections))

\* an unknown marker met before any part or chapter was refused by loop2
C13_Witness ==
    /\ err = "NoChapterSpecified"
    /\ UnknownMarker(currLine)
    /\ pc = "BodyMatter"

\* C14: End is entered only from the back-matter loop with the end
\* directive as the current line; from then on the cursor, the lines read,
\* the Sections and the Guides do not change, and the end line is the last
\* line that was read: no line after it is ever looked at.
C14_EndIsFinal ==
    /\ [][pc' = "End" /\ pc # "End" =>
             pc = "BackMatter" /\ err = NoErr /\ currLine = "<!--end-->"]_vars
    /\ [][AtEnd =>
             /\ AtEnd'
             /\ lines' = lines
             /\ lineIndex' = lineIndex
             /\ currLine' = currLine
             /\ sections' = sections
             /\ guides' = guides]_vars
    /\ [](AtEnd =>
             /\ currLine = "<!--end-->"
             /\ lineIndex + 1 = Len(lines)
             /\ lines[Len(lines)] = "<!--end-->")

\* the three generators have run and the end line is the last line read
C14_Witness ==
    /\ pc = "Done"
    /\ err = NoErr
    /\ lines[Len(lines)] = "<!--end-->"
    /\ lineIndex + 1 = Len(lines)

\* C15: while no end directive was read the parse is not at End and nothing
\* was handed to the table of contents; UnexpectedEndOfInput is raised
\* exactly when the cursor has run off the last line, and never at End.
C15_NoEndNoBook ==
    /\ Occurrences("<!--end-->") = {} => ~AtEnd /\ nav = <<>>
    /\ err = "UnexpectedEndOfInput" => lineIndex = Len(lines) /\ ~AtEnd
    /\ lineIndex = Len(lines) /\ Len(lines) > 0 => err = "UnexpectedEndOfInput"

\* the body of the last Section of a document without end directive ran to
\* the end of the input
C15_Witness ==
    /\ err = "UnexpectedEndOfInput"
    /\ pc \in {"BodyMatter", "BackMatter"}
    /\ HasBody(sections)
    /\ Occurrences("<!--end-->") = {}

\* the place of the <body> line the skip of main.go:263-268 stopped at
BodyAt == CHOOSE i \in 1..Len(lines) :
              lines[i] = "<body>" /\ \A j \in 1..(i - 1) : lines[j] # "<body>"

\* the first line after the <body> line, read at main.go:269
FirstAfterBody == lines[BodyAt + 1]

\* the steps that follow the TitlePage step
AfterTitlePage == {"Copyright"} \cup Loops \cup {"End", "NCX", "OPF", "Done"}

\* the TitlePage step has run, to the next step or to a failure
TitlePageDone == pc \in AfterTitlePage \/ (pc = "TitlePage" /\ err # NoErr)

\* C16 as stated: with the titlepage attribute custom, the parse passes the
\* TitlePage step when the title-page directive is the first line after the
\* <body> line, and fails there with TitlePageDirectiveExpected otherwise.
C16_CustomDirectiveFirst ==
    TitlePageKind(attributes) = "custom" /\ TitlePageDone =>
        IF FirstAfterBody = "<!--titlepage-->"
        THEN pc \in AfterTitlePage
        ELSE pc = "TitlePage" /\ err = "TitlePageDirectiveExpected"

\* the titlepage attribute is absent or default
DefaultTitlePage ==
    ~HasAttr(attributes, "titlepage") \/ attributes["titlepage"] = "default"

\* C17: whether the titlepage attribute is absent or is default, the
\* TitlePage step does the same: it reads no line, leaves the cursor where
\* it is, appends the default title-page Section to the Sections and to the
\* Guides and goes on to the Copyright step; no later step reads the
\* attribute, and a parse that gets past the Copyright step has the
\* copyright directive as the first line after <body>.
C17_AbsentIsDefault ==
    /\ [][pc = "TitlePage" /\ err = NoErr /\ DefaultTitlePage =>
             /\ lines' = lines
             /\ lineIndex' = lineIndex
             /\ currLine' = currLine
             /\ sections' = Append(sections, TitlePageSection)
             /\ guides' = Append(guides, TitlePageSection)
             /\ pc' = "Copyright"
             /\ err' = NoErr]_vars
    /\ [][DefaultTitlePage /\ pc \in AfterTitlePage => UNCHANGED attributes]_vars
    /\ [](DefaultTitlePage /\ pc \in AfterTitlePage =>
             /\ lineIndex >= BodyAt
             /\ pc = "Copyright" /\ err = NoErr =>
                    lineIndex = BodyAt /\ currLine = FirstAfterBody
             /\ pc \in AfterTitlePage \ {"Copyright"} =>
                    FirstAfterBody = "<!--copyright-->")

\* a document without titlepage attribute got past the Copyright step
C17_Witness ==
    /\ ~HasAttr(attributes, "titlepage")
    /\ pc = "FrontMatter"
    /\ err = NoErr
    /\ FirstAfterBody = "<!--copyright-->"

\* a document with titlepage = default got past the Copyright step
C17_WitnessDefault ==
    /\ HasAttr(attributes, "titlepage")
    /\ attributes["titlepage"] = "default"
    /\ pc = "FrontMatter"
    /\ err = NoErr
    /\ FirstAfterBody = "<!--copyright-->"

\* C18: a step of the Copyright state on a line that is not the copyright
\* directive fails with CopyrightDirectiveExpected, reads nothing and
\* appends nothing; on the copyright directive it appends exactly the
\* copyright Section, unless the input ends with the directive line.  The
\* Sections never hold two copyright Sections, and hold one once the step
\* is passed.
C18_CopyrightDirective ==
    /\ [][pc = "Copyright" /\ err = NoErr =>
             IF currLine = "<!--copyright-->"
             THEN /\ err' # "CopyrightDirectiveExpected"
                  /\ lineIndex' > lineIndex
                  /\ IF err' = "UnexpectedEndOfInput" /\ lineIndex' = lineIndex + 1
                     THEN sections' = sections
                     ELSE sections' = Append(sections, CopyrightSection)
             ELSE /\ pc' = "Copyright"
                  /\ err' = "CopyrightDirectiveExpected"
                  /\ lines' = lines
                  /\ lineIndex' = lineIndex
                  /\ sections' = sections]_vars
    /\ [](/\ CountKind(sections, "copyright-page") <= 1
          /\ pc \in Loops \cup {"End", "NCX", "OPF", "Done"} =>
                 CountKind(sections, "copyright-page") = 1
          /\ err = "CopyrightDirectiveExpected" =>
                 /\ pc = "Copyright"
                 /\ currLine # "<!--copyright-->"
                 /\ CountKind(sections, "copyright-page") = 0)

\* another valid directive where the copyright directive is expected
C18_Witness ==
    /\ err = "CopyrightDirectiveExpected"
    /\ pc = "Copyright"
    /\ currLine = "<!--chapter-->"
    /\ CountKind(sections, "copyright-page") = 0

\* a line that starts with one of the three heading tags
IsHeadingLine(line) ==
    HasPrefix(line, "<h1") \/ HasPrefix(line, "<h2") \/ HasPrefix(line, "<h3")

\* the step about to be taken dispatches a directive whose Section is built
\* from the lines that follow it
DirectiveDispatched ==
    \/ pc = "Copyright" /\ currLine = "<!--copyright-->"
    \/ pc = "FrontMatter" /\ IsDirective(currLine, FrontKinds) /\ ~AlreadyGiven(KindOf(currLine))
    \/ pc = "BodyMatter" /\ IsDirective(currLine, BodyKinds)
    \/ pc = "BackMatter" /\ IsDirective(currLine, BackKinds) /\ ~AlreadyGiven(KindOf(currLine))

\* the place, in the lines after the step, of the line that follows the
\* directive the step dispatches; 0 when no directive is dispatched
AfterDirective ==
    IF DirectiveDispatched THEN lineIndex + 2
    ELSE IF /\ pc = "TitlePage"
            /\ TitlePageKind(attributes) = "custom"
            /\ Len(lines') >= lineIndex + 2
            /\ lines'[lineIndex + 2] = "<!--titlepage-->"
         THEN lineIndex + 3
         ELSE 0

\* C19 as stated: a step that dispatches the custom title-page directive,
\* the copyright directive or a front-matter, body-matter or back-matter
\* directive, and finds a line that is no heading line after it, fails with
\* HeadingFormatError.
C19_HeadingRequired ==
    [][/\ err = NoErr
       /\ AfterDirective > 0
       /\ Len(lines') >= AfterDirective
       /\ ~IsHeadingLine(lines'[AfterDirective])
       => err' = "HeadingFormatError"]_vars

\* the places of the back-matter Sections
BackPlaces(secs) == {i \in 1..Len(secs) : secs[i].EpubType \in BackKinds}

\* the place of the first back-matter Section
FirstBack(secs) == CHOOSE i \in BackPlaces(secs) : \A j \in BackPlaces(secs) : i <= j

\* C20: at End the Guides are the cover Section, the title-page Section and
\* the first body-matter Section, followed by the first back-matter Section
\* when there is one: three or four elements, taken from the Sections in
\* their order, none of kind copyright-page or of a front-matter kind.
C20_GuidesAtEnd ==
    AtEnd =>
        /\ guides = <<sections[1], sections[2], sections[FirstBody(sections)]>>
                    \o (IF BackPlaces(sections) = {} THEN <<>>
                        ELSE <<sections[FirstBack(sections)]>>)
        /\ Len(guides) = IF BackPlaces(sections) = {} THEN 3 ELSE 4
        /\ guides[1].EpubType = "cover"
        /\ guides[2].EpubType = "titlepage"
        /\ guides[3].EpubType \in BodyKinds
        /\ 2 < FirstBody(sections)
        /\ BackPlaces(sections) # {} => FirstBody(sections) < FirstBack(sections)
        /\ \A i \in 1..Len(guides) :
               guides[i].EpubType \notin FrontKinds \cup {"copyright-page"}

\* a book with two body-matter Sections and back matter at its end
C20_Witness ==
    /\ pc = "Done"
    /\ Len(guides) = 4
    /\ CountOf(sections, BodyKinds) >= 2
    /\ CountOf(sections, BackKinds) >= 1

\* a book without back matter at its end
C20_WitnessNoBack ==
    /\ pc = "Done"
    /\ Len(guides) = 3
    /\ CountOf(sections, FrontKinds) >= 1
    /\ CountOf(sections, BodyKinds) >= 2

\* C21 as stated: the cursor never leaves the lines: after every advance it
\* is on a line, which is the current line, or it is one past the last line
\* and the run has failed with UnexpectedEndOfInput; positions only grow, so
\* no line is yielded twice.
C21_AdvanceOrEnd ==
    /\ lineIndex <= Len(lines)
    /\ lineIndex > 0 /\ lineIndex < Len(lines) => currLine = lines[lineIndex + 1]
    /\ lineIndex > 0 /\ lineIndex = Len(lines) => err = "UnexpectedEndOfInput"
    /\ err = "UnexpectedEndOfInput" => lineIndex = Len(lines)

\* the step about to be taken is a pass of the loop over the <head> section
\* that reads a line other than </head>
DeclarationRead ==
    /\ pc = "Metadata"
    /\ err = NoErr
    /\ lineIndex' = lineIndex + 1
    /\ Len(lines') > lineIndex'
    /\ currLine' # "</head>"

\* the line has the component: key, a quote, and a closing quote after it
HasComponent(line, key) ==
    LET cs == Chars[line]
        i == BytesIndex(cs, Chars[key])
        from == i + StrLen(key) + 1
    IN  /\ i # -1
        /\ from <= Len(cs)
        /\ BytesIndex(SubSeq(cs, from + 1, Len(cs)), Chars["\""]) # -1

\* the line holds key followed by the quoted value
Declares(line, key, value) ==
    BytesIndex(Chars[line], Chars[key] \o Chars["\""] \o Chars[value] \o Chars["\""]) # -1

\* the step stores one value of the line under one name of the line, and
\* leaves the other attributes as they were
StoresDeclaration(line) ==
    \E n \in DOMAIN attributes' :
        /\ attributes' = SetAttr(attributes, n, attributes'[n])
        /\ Declares(line, "name=", n)
        /\ Declares(line, "content=", attributes'[n])

\* C22 as stated: a line that is no <meta declaration changes nothing; a
\* declaration with name and content is stored, over an earlier value of
\* the name; any other <meta declaration fails with MalformedMetadata.
C22_MissingComponentFails ==
    [][DeclarationRead =>
          IF ~HasPrefix(currLine', "<meta")
          THEN attributes' = attributes /\ err' = NoErr
          ELSE IF HasComponent(currLine', "name=") /\ HasComponent(currLine', "content=")
               THEN err' = NoErr /\ StoresDeclaration(currLine')
               ELSE err' = "MalformedMetadata" /\ attributes' = attributes]_vars

\* C22 amended: a line that is no <meta declaration, and a <meta
\* declaration without name=, changes nothing and the loop goes on; a
\* declaration with name and content is stored, over an earlier value of
\* the name; a declaration with name= that lacks the closing quote of the
\* name, the content or the closing quote of the content fails, with
\* MalformedMetadata, or with a runtime panic when the line ends right after
\* name= or content=, and stores nothing.
C22_NamelessIgnored ==
    [][DeclarationRead =>
          IF ~HasPrefix(currLine', "<meta") \/ Index(currLine', "name=") = -1
          THEN attributes' = attributes /\ err' = NoErr /\ pc' = "Metadata"
          ELSE IF HasComponent(currLine', "name=") /\ HasComponent(currLine', "content=")
               THEN err' = NoErr /\ StoresDeclaration(currLine') /\ pc' = "Metadata"
               ELSE /\ attributes' = attributes
                    /\ err' \in {"MalformedMetadata", "RuntimePanic"}
                    /\ err' = "RuntimePanic" <=>
                           \/ Index(currLine', "name=") + StrLen("name=") = StrLen(currLine')
                           \/ /\ Index(currLine', "content=") # -1
                              /\ Index(currLine', "content=") + StrLen("content=")
                                     = StrLen(currLine')]_vars

\* a declaration of title was read after another, and its value is the one
\* stored
C22_Witness ==
    /\ pc = "Metadata"
    /\ err = NoErr
    /\ HasAttr(attributes, "title")
    /\ attributes["title"] = "U"
    /\ \E i, j \in 1..Len(lines) :
           /\ i < j
           /\ lines[i] = MetaLines[2]
           /\ lines[j] = "<meta name=\"title\" content=\"U\"/>"

\* a <meta declaration without name= was passed over
C22_WitnessNameless ==
    /\ pc = "CheckAttributes"
    /\ err = NoErr
    /\ \E i \in 1..Len(lines) : lines[i] = "<meta content=\"U\"/>"

\* the steps before the check of the attributes is passed
BeforeCover == {"SkipToHead", "Metadata", "CheckAttributes"}

\* the dictionary holds every mandatory key, and version is epub3
MandatoryPresent ==
    /\ \A k \in 1..Len(MetaKeys) : HasAttr(attributes, MetaKeys[k])
    /\ attributes["version"] = "epub3"

\* C23: once the check of the attributes is passed, and whenever a Section
\* exists, the dictionary holds all mandatory keys, version with the value
\* epub3; a run that fails for a missing attribute fails in the check, with
\* no Section and with a key missing or a version other than epub3; and
\* before the check is passed no Section exists.
C23_MandatoryBeforeCover ==
    /\ pc \notin BeforeCover \/ sections # <<>> => MandatoryPresent
    /\ pc \in BeforeCover => sections = <<>> /\ guides = <<>>
    /\ err = "MissingAttribute" =>
           /\ pc = "CheckAttributes"
           /\ ~MandatoryPresent
    /\ pc = "CheckAttributes" /\ err # NoErr /\ ~MandatoryPresent =>
           err = "MissingAttribute"

\* the header was read to </head> without the declaration of title, with
\* all that follow it, and the run failed before any Section
C23_Witness ==
    /\ err = "MissingAttribute"
    /\ ~HasAttr(attributes, "title")
    /\ HasAttr(attributes, "cover-image")
    /\ HasAttr(attributes, "language")
    /\ sections = <<>>

\* the Cover state is entered with the mandatory keys
C23_WitnessCover == pc = "Cover" /\ err = NoErr /\ MandatoryPresent

\* the file name has an extension, the part after its last dot, and it is
\* png or jpeg
GoodImage(file) ==
    LET parts == BytesSplit(Chars[file], Chars["."])
    IN  Len(parts) >= 2 /\ parts[Len(parts)] \in {Chars["png"], Chars["jpeg"]}

\* the entries of the images attribute
ImageEntries(attrs) ==
    IF HasAttr(attrs, "images")
    THEN LET files == BytesSplit(Chars[attrs["images"]], Chars[","])
         IN  {Str(files[i]) : i \in 1..Len(files)}
    ELSE {}

\* the cover image and the entries of the images attribute
CheckedImages(attrs) ==
    (IF HasAttr(attrs, "cover-image") THEN {attrs["cover-image"]} ELSE {})
    \cup ImageEntries(attrs)

\* the titlepage attribute names an image
TitlePageImage ==
    HasAttr(attributes, "titlepage") /\ attributes["titlepage"] \notin {"default", "custom"}

\* C24 as stated: a run with the mandatory keys fails in the check of the
\* attributes exactly when the cover image or an entry of the images
\* attribute has no extension or an extension other than png and jpeg, and
\* then with UnsupportedImageExtension; the same holds in the title-page
\* step for a titlepage attribute that names an image.
C24_ImageExtensions ==
    /\ pc = "CheckAttributes" /\ err # NoErr /\ MandatoryPresent =>
           /\ err = "UnsupportedImageExtension"
           /\ \E f \in CheckedImages(attributes) : ~GoodImage(f)
    /\ pc \notin BeforeCover => \A f \in CheckedImages(attributes) : GoodImage(f)
    /\ pc = "TitlePage" /\ err # NoErr /\ TitlePageImage =>
           /\ err = "UnsupportedImageExtension"
           /\ ~GoodImage(attributes["titlepage"])
    /\ pc = "Copyright" /\ TitlePageImage => GoodImage(attributes["titlepage"])

\* C25: the generators of the table of contents and the manifest run only
\* at End, which is reached by the end directive; a run that fails before
\* End has handed nothing to them and never gets to them; and a failed run
\* takes no further step: no Section or Guide is appended and the cursor
\* does not move.
C25_FailFast ==
    /\ [](/\ nav # <<>> \/ pc \in {"NCX", "OPF", "Done"} =>
                 /\ lines[Len(lines)] = "<!--end-->"
                 /\ currLine = "<!--end-->"
                 /\ HasBody(sections)
          /\ err # NoErr /\ pc # "End" => nav = <<>> /\ ~AtEnd
          /\ err # NoErr => pc # "Done")
    /\ [][err = NoErr]_vars
    /\ [][pc' \in {"NCX", "OPF", "Done"} => AtEnd /\ err = NoErr]_vars

\* a parse with Sections of all three groups failed in the back matter, and
\* nothing was handed to the generators
C25_Witness ==
    /\ err = "UnknownDirective"
    /\ pc = "BackMatter"
    /\ CountOf(sections, FrontKinds) > 0
    /\ HasBody(sections)
    /\ nav = <<>>

\* the place of a kind in the order of the groups
GroupRank(kind) ==
    IF kind = "cover" THEN 0
    ELSE IF kind = "titlepage" THEN 1
    ELSE IF kind = "copyright-page" THEN 2
    ELSE IF kind \in FrontKinds THEN 3
    ELSE IF kind \in BodyKinds THEN 4
    ELSE 5

\* the step order of main()
StepRank ==
    [SkipToHead |-> 0, Metadata |-> 1, CheckAttributes |-> 2, SkipToBody |-> 3,
     Cover |-> 4, TitlePage |-> 5, Copyright |-> 6, FrontMatter |-> 7,
     BodyMatter |-> 8, BackMatter |-> 9, End |-> 10, NCX |-> 11, OPF |-> 12,
     Done |-> 13]

\* C26: no step goes back to an earlier state; the kinds of the Sections
\* are in the order cover, title page, copyright, front matter, body matter,
\* back matter, the first three once each; a front-matter directive that is
\* the current line after a body-matter Section, and a part or chapter
\* directive that is the current line in the back-matter loop, is not
\* consumed, yields no Section, and is refused by the back-matter loop.
C26_NoWayBack ==
    /\ [][StepRank[pc'] >= StepRank[pc]]_vars
    /\ [](/\ \A i, j \in 1..Len(sections) :
                 i < j => GroupRank(sections[i].EpubType) <= GroupRank(sections[j].EpubType)
          /\ \A i \in 1..Len(sections) :
                 GroupRank(sections[i].EpubType) < 3 <=> i <= 3
          /\ \A i \in 1..Len(sections) :
                 i <= 3 => GroupRank(sections[i].EpubType) = i - 1)
    /\ [][/\ err = NoErr
          /\ \/ pc = "BodyMatter" /\ HasBody(sections) /\ IsDirective(currLine, FrontKinds)
             \/ pc = "BackMatter" /\ IsDirective(currLine, FrontKinds \cup BodyKinds)
          => /\ sections' = sections
             /\ lineIndex' = lineIndex
             /\ currLine' = currLine
             /\ IF pc = "BodyMatter" THEN pc' = "BackMatter" /\ err' = NoErr
                ELSE pc' = "BackMatter" /\ err' = "UnknownDirective"]_vars

\* a chapter directive after a back-matter Section was refused
C26_Witness ==
    /\ err = "UnknownDirective"
    /\ pc = "BackMatter"
    /\ currLine = "<!--chapter-->"
    /\ CountOf(sections, BackKinds) > 0

\* a front-matter directive after a body-matter Section was refused
C26_WitnessFront ==
    /\ err = "UnknownDirective"
    /\ pc = "BackMatter"
    /\ IsDirective(currLine, FrontKinds)
    /\ HasBody(sections)
    /\ CountOf(sections, FrontKinds) > 0

\* C27 as stated: the Section appended for a front-matter or back-matter
\* directive stores the text of the heading line that follows the
\* directive, and the default label of the kind when that text is the
\* sentinel, whatever the kind.
C27_HeadingOrLabel ==
    [][/\ err = NoErr
       /\ pc \in {"FrontMatter", "BackMatter"}
       /\ IsDirective(currLine, FrontKinds \cup BackKinds)
       /\ Len(sections') = Len(sections) + 1
       => LET kind == KindOf(currLine)
              text == ExtractHeading(lines'[lineIndex + 2]).heading
          IN  /\ sections'[Len(sections')].EpubType = kind
              /\ sections'[Len(sections')].Heading =
                     IF text = "" THEN DefaultLabel[kind] ELSE text]_vars

\* the places of the part Sections
PartPlaces(secs) == {i \in 1..Len(secs) : secs[i].EpubType = "part"}

\* the place of the last body-matter Section
LastBody(secs) ==
    CHOOSE i \in 1..Len(secs) :
        /\ secs[i].EpubType \in BodyKinds
        /\ \A j \in (i + 1)..Len(secs) : secs[j].EpubType \notin BodyKinds

\* C28 as stated: when the first body-matter Section is a part, the
\* Partitioner gives one group for every part Section, in their order; the
\* group of a part directly followed by another part or by a back-matter
\* Section has no chapters; and the chapters of a group are the Sections
\* between its part and the next part or the first back-matter Section.
C28_EmptyChapterParts ==
    /\ Partitioned
    /\ HasBody(sections)
    /\ sections[FirstBody(sections)].EpubType = "part"
    /\ \E i \in PartPlaces(sections) :
           i < Len(sections) /\ sections[i + 1].EpubType # "chapter"
    =>
        /\ nav # <<>>
        /\ Len(nav[1].partSections) = Cardinality(PartPlaces(sections))
        /\ \A i \in PartPlaces(sections) :
               LET g == Cardinality({j \in PartPlaces(sections) : j <= i})
                   group == nav[1].partSections[g]
               IN  /\ group.Part = sections[i]
                   /\ i < Len(sections) /\ sections[i + 1].EpubType # "chapter" =>
                          group.Chapters = <<>>
                   /\ group.Chapters = SubSeq(sections, i + 1, ChapterRunEnd(sections, i + 1))

\* C29: for the Sections of a parse that reached End, the front sections
\* the Partitioner computes are the Sections before the first part or
\* chapter, in their order, none of them a part or chapter; they begin with
\* the cover, title-page and copyright Sections; and they are what a
\* Partitioner that returns hands to the template.
C29_FrontSections ==
    AtEnd =>
        /\ FrontSections(sections) = SubSeq(sections, 1, FirstBody(sections) - 1)
        /\ \A i \in 1..Len(FrontSections(sections)) :
               /\ FrontSections(sections)[i] = sections[i]
               /\ FrontSections(sections)[i].EpubType \notin BodyKinds
        /\ Len(FrontSections(sections)) >= 3
        /\ sections[Len(FrontSections(sections)) + 1].EpubType \in BodyKinds
        /\ nav # <<>> => nav[1].frontSections = FrontSections(sections)

\* the Partitioner has run on Sections with front matter whose first
\* body-matter Section is a part
C29_Witness ==
    /\ pc = "NCX"
    /\ nav # <<>>
    /\ Len(nav[1].frontSections) >= 4
    /\ sections[Len(nav[1].frontSections) + 1].EpubType = "part"

\* C30 as stated: the back sections a Partitioner that returns hands to the
\* template are the Sections after the last part or chapter, in their
\* order, none of them a part or chapter, and none when the document has no
\* back matter.
C30_BackSections ==
    nav # <<>> =>
        /\ nav[1].backSections = SubSeq(sections, LastBody(sections) + 1, Len(sections))
        /\ \A i \in 1..Len(nav[1].backSections) :
               nav[1].backSections[i].EpubType \notin BodyKinds
        /\ BackPlaces(sections) = {} => nav[1].backSections = <<>>

\* C31 as stated: in every Section sequence the parse produces, when the
\* first body-matter Section is a chapter no Section of kind part occurs
\* anywhere (parts and part-less chapters are never mixed).
C31_NeverMixed ==
    HasBody(sections) /\ sections[FirstBody(sections)].EpubType = "chapter"
        => PartPlaces(sections) = {}

\* strings.HasPrefix(currLine, "<!--") of gen.go:140
MarkerShaped(line) == HasPrefix(line, "<!--")

\* the steps that build a Section from input lines
Builders == {"TitlePage", "Copyright", "FrontMatter", "BodyMatter", "BackMatter"}

\* the place, in the lines read, of the first line a builder buffers: the
\* line after the directive, which for the custom title page is itself the
\* line after the current one (main.go:312-318)
BodyStart == IF pc = "TitlePage" THEN lineIndex + 3 ELSE lineIndex + 2

\* no line of the document after place p is marker-shaped
NoMarkerAfter(doc, p) == \A j \in (p + 1)..Len(doc) : ~MarkerShaped(doc[j])

\* C32: a step that builds a Section from input lines buffers the line after
\* the directive and every line after it up to, and not including, the next
\* marker-shaped line, recognized or not; that marker is then the current
\* line and nothing after it was read; when no marker-shaped line follows,
\* the step fails with UnexpectedEndOfInput.
C32_BodyUpToMarker ==
    [][err = NoErr /\ pc \in Builders /\ lineIndex' > lineIndex =>
          /\ err' = NoErr =>
                 /\ lineIndex' >= BodyStart
                 /\ sectionLines' = SubSeq(lines', BodyStart, lineIndex')
                 /\ \A j \in (BodyStart + 1)..lineIndex' : ~MarkerShaped(lines'[j])
                 /\ MarkerShaped(currLine')
                 /\ currLine' = lines'[lineIndex' + 1]
                 /\ Len(lines') = lineIndex' + 1
          /\ err' = "UnexpectedEndOfInput" =>
                 /\ lineIndex' = Len(lines')
                 /\ NoMarkerAfter(lines', BodyStart)
                 /\ sectionLines' = sectionLines
          /\ Len(lines') >= BodyStart /\ NoMarkerAfter(lines', BodyStart)
             /\ err' \notin {"HeadingFormatError", "RuntimePanic",
                             "TitlePageDirectiveExpected"}
                 => err' = "UnexpectedEndOfInput"]_vars

\* a Section was built whose body has text lines and ends at a marker that
\* is no directive
C32_Witness ==
    /\ err = NoErr
    /\ pc \in Builders
    /\ Len(sectionLines) >= 2
    /\ UnknownMarker(currLine)

\* a builder ran into the end of the file after buffering the heading line
C32_WitnessEnd ==
    /\ err = "UnexpectedEndOfInput"
    /\ pc \in Builders
    /\ lineIndex = Len(lines)
    /\ lines[Len(lines)] = "<h1>T</h1>"

\* C33 as stated: no recognized directive line is ever absorbed into the
\* buffered body of a Section, also when it directly follows the copyright
\* or the custom title-page directive line.
C33_NoDirectiveAbsorbed ==
    \A j \in 1..Len(sectionLines) : ~IsDirective(sectionLines[j], DOMAIN Directive)

\* the current line is in no case of the switch of the loop the run is in
\* (main.go:513 for loop1, main.go:552 for loop2)
LoopExit ==
    \/ pc = "FrontMatter" /\ ~IsDirective(currLine, FrontKinds)
    \/ pc = "BodyMatter" /\ ~IsDirective(currLine, BodyKinds)

\* C34: loop1 and loop2 exit without consuming the line that is in none of
\* their cases: the step leaves the cursor, the current line, the lines
\* read, the Sections and the Guides as they are, the line is still the
\* last line read, and the next loop is the one that classifies it (loop2
\* after loop1; loop3 after loop2, unless no part or chapter was given).
C34_ExitKeepsLine ==
    [][LoopExit /\ err = NoErr =>
          /\ UNCHANGED <<lines, lineIndex, currLine, sections, guides>>
          /\ currLine' = lines'[lineIndex' + 1]
          /\ Len(lines') = lineIndex' + 1
          /\ pc = "FrontMatter" => pc' = "BodyMatter" /\ err' = NoErr
          /\ pc = "BodyMatter" /\ HasBody(sections) => pc' = "BackMatter" /\ err' = NoErr
          /\ pc = "BodyMatter" /\ ~HasBody(sections) =>
                 pc' = "BodyMatter" /\ err' = "NoChapterSpecified"]_vars

\* loop1 was left on a line that loop2 does not accept either
C34_Witness ==
    /\ pc = "BodyMatter"
    /\ err = NoErr
    /\ ~HasBody(sections)
    /\ CountOf(sections, FrontKinds) > 0
    /\ ~IsDirective(currLine, BodyKinds)

\* loop2 was left on the line loop3 starts with
C34_WitnessBody ==
    /\ pc = "BackMatter"
    /\ err = NoErr
    /\ CountOf(sections, BackKinds) = 0
    /\ IsDirective(currLine, BackKinds)
    /\ sections[Len(sections)].EpubType = "part"

\* the sequence s is the beginning of the sequence t
StartsWith(t, s) == Len(s) <= Len(t) /\ SubSeq(t, 1, Len(s)) = s

\* C35: the Sections and the Guides are append-only: across every step of
\* the conversion, the run of the Partitioner included, the sequence before
\* the step is a prefix of the sequence after it.
C35_AppendOnly ==
    [][StartsWith(sections', sections) /\ StartsWith(guides', guides)]_vars

\* the Partitioner has run over Sections of the three groups, after passes
\* that appended to the Sections and to the Guides
C35_Witness ==
    /\ pc = "NCX"
    /\ CountOf(sections, FrontKinds) > 0
    /\ CountOf(sections, BodyKinds) > 0
    /\ CountOf(sections, BackKinds) > 0
    /\ Len(guides) > 3

\* the steps that read the header region
HeaderSteps == {"SkipToHead", "Metadata"}

\* the two attributes the program computes
Stamps == {"created", "modified"}

\* the header region has been read: the run is past the loop of
\* main.go:162-170
HeaderRead == pc \notin HeaderSteps

\* C36: once the header region is read, the attributes change only at
\* created and modified, in the step that checks them: created gets the
\* timestamp only when it was not supplied, modified always gets it; no
\* step from Cover to End changes an attribute.
C36_OnlyTimestamps ==
    [][HeaderRead =>
          /\ DOMAIN attributes' = DOMAIN attributes \cup
                 (IF attributes' = attributes THEN {} ELSE Stamps)
          /\ \A k \in DOMAIN attributes \ Stamps : attributes'[k] = attributes[k]
          /\ attributes' # attributes =>
                 /\ pc = "CheckAttributes" /\ pc' = "SkipToBody"
                 /\ attributes'["modified"] = TimeStamp
                 /\ attributes'["created"] =
                        IF HasAttr(attributes, "created") THEN attributes["created"]
                        ELSE TimeStamp
          /\ pc = "CheckAttributes" /\ pc' = "SkipToBody" =>
                 HasAttr(attributes', "created") /\ attributes'["modified"] = TimeStamp
          /\ pc \notin {"CheckAttributes"} => attributes' = attributes]_vars

\* the conversion of a document that supplies created reached its end with
\* the supplied value, and with the timestamp in modified
C36_Witness ==
    /\ pc = "Done"
    /\ HasAttr(attributes, "created")
    /\ attributes["created"] = "2021-01-01T00:00:00Z"
    /\ attributes["modified"] = TimeStamp

\* the conversion of a document that does not supply created reached its
\* end with the timestamp in both
C36_WitnessFresh ==
    /\ pc = "Done"
    /\ HasAttr(attributes, "created")
    /\ attributes["created"] = TimeStamp
    /\ attributes["modified"] = TimeStamp

\* the run is over: the generators returned, or the program exited
Terminated == pc = "Done" \/ err # NoErr

\* the loops of main() over the lines: main.go:153-158, 162-170, 263-269,
\* loop1, loop2 and loop3
LineLoops == {"SkipToHead", "Metadata", "SkipToBody", "FrontMatter", "BodyMatter",
              "BackMatter"}

\* C37: the conversion terminates, after the generators that follow End or
\* with an error; a pass of a loop over the lines that is followed by another
\* advances the cursor by at least one line, a pass that buffers a body
\* advances it by at least the lines it buffered, no step moves the cursor
\* back, no step returns to an earlier loop, and no step follows the end of
\* the run.
C37_Terminates ==
    /\ <>Terminated
    /\ [][/\ lineIndex' >= lineIndex
          /\ StepRank[pc'] >= StepRank[pc]
          /\ pc \in LineLoops /\ pc' = pc /\ err' = NoErr => lineIndex' > lineIndex
          /\ pc \in Builders /\ err' = NoErr /\ lineIndex' > lineIndex =>
                 lineIndex' >= lineIndex + Len(sectionLines')
          /\ pc' = pc /\ err' = NoErr => pc \in LineLoops
          /\ ~Terminated]_vars

\* the run ended well after passes of the loops
C37_Witness ==
    /\ pc = "Done"
    /\ lines[1] = "<html>"
    /\ CountOf(sections, BodyKinds) > 0
    /\ CountOf(sections, BackKinds) > 0
    /\ lineIndex = Len(lines) - 1

\* the run ended with an error in the middle of the lines' first loop
C37_WitnessError ==
    /\ pc = "SkipToHead"
    /\ err = "UnexpectedEndOfInput"
    /\ lineIndex = Len(lines)
    /\ lineIndex > 1

\* C38 as stated: over the Sections of every parse that reached End, the
\* Partitioner returns a grouping and reads no index at or past the end of
\* the Sections, also when the body matter has parts and no back-matter
\* Section follows.
C38_PartitionerInRange == AtEnd => err = NoErr /\ Partition(sections).err = NoErr

\* the Sections of the part groups in their order, each part followed by
\* its chapters
RECURSIVE FlattenParts(_)
FlattenParts(groups) ==
    IF groups = <<>> THEN <<>>
    ELSE <<Head(groups).Part>> \o Head(groups).Chapters \o FlattenParts(Tail(groups))

\* the body grouping of the Partitioner's output, flattened
FlatBody(data) ==
    IF data.hasParts THEN FlattenParts(data.partSections) ELSE data.chapterSections

\* C39: the output of a Partitioner that returned is a lossless partition of
\* the Sections that keeps their order: the front sections, then the body
\* grouping flattened, then the back sections are the Sections, none
\* dropped, duplicated or moved.
C39_LosslessPartition ==
    pc \in {"NCX", "OPF", "Done"} =>
        /\ nav = <<Partition(sections)>>
        /\ nav[1].frontSections \o FlatBody(nav[1]) \o nav[1].backSections = sections

\* the Partitioner returned part groups with chapters, between front and
\* back sections
C39_Witness ==
    /\ pc = "NCX"
    /\ nav[1].hasParts
    /\ Len(nav[1].partSections[1].Chapters) > 0
    /\ Len(nav[1].backSections) > 0

\* the Partitioner returned for a book without parts and with front matter
C39_WitnessChapters ==
    /\ pc = "NCX"
    /\ ~nav[1].hasParts
    /\ Len(nav[1].frontSections) > 3
    /\ Len(nav[1].backSections) > 1
====
